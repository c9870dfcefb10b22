------------------------- MODULE TradingCycleProofs -------------------------
(***************************************************************************)
(* Safety of the trading cycle, for every number of orders, every size,    *)
(* price path and setting, and any number of failures, restarts, flips of  *)
(* the switch and midnights.                                               *)
(*                                                                         *)
(* The trades table, the executor and the events between them are three    *)
(* views of one order, written at different moments.  The invariant ties   *)
(* them: which of the three may be ahead at each stage of the cycle, and   *)
(* what a failure or a restart may have left behind (history.lost).        *)
(***************************************************************************)
EXTENDS TradingCycle, SumTheorems

-----------------------------------------------------------------------------
(* Totals over sets of orders.                                             *)

\* The orders are finitely many.
LEMMA OrdersFinite == IsFiniteSet(Orders) /\ \A s \in SUBSET Orders : IsFiniteSet(s) /\ Cardinality(s) \in Nat
<1>0. 1 \in Int /\ NOrders \in Int
  BY CycleAssumption
<1>1. IsFiniteSet(Orders)
  BY <1>0, FS_Interval DEF Orders
<1> QED
  BY <1>1, FS_Subset, FS_CardinalityType

\* A total over the trades table is a number, nothing adds up to zero, and any order may be
\* taken out first.
LEMMA Totals ==
  ASSUME NEW w \in [Orders -> Int]
  PROVE  /\ Total(w, {}) = 0
         /\ \A S \in SUBSET Orders :
              Total(w, S) \in Int /\ \A x \in S : Total(w, S) = w[x] + Total(w, S \ {x})
<1>1. \A S : Total(w, S) = Tally(w, S)
  BY DEF Total, Tally
<1> QED
  BY <1>1, OrdersFinite, Tallies

\* Amounts that agree on a set have the same total over it.
LEMMA SameTotal ==
  ASSUME NEW v \in [Orders -> Int], NEW w \in [Orders -> Int],
         NEW R \in SUBSET Orders, \A o \in R : v[o] = w[o]
  PROVE  Total(v, R) = Total(w, R)
<1> DEFINE T == {s \in SUBSET R : Total(v, s) = Total(w, s)}
<1>1. ASSUME NEW s \in SUBSET R, \A x \in s : s \ {x} \in T PROVE s \in T
  <2>1. CASE s = {}
    BY <2>1, Totals
  <2>2. CASE s # {}
    <3>1. PICK x \in s : TRUE
      BY <2>2
    <3>2. Total(v, s) = v[x] + Total(v, s \ {x}) /\ Total(w, s) = w[x] + Total(w, s \ {x})
      BY Totals
    <3> QED
      BY <1>1, <3>1, <3>2
  <2> QED
    BY <2>1, <2>2
<1> HIDE DEF T
<1>2. R \in T
  BY <1>1, OrdersFinite, SetBySet
<1> QED
  BY <1>2 DEF T

\* What is not negative adds up to more over more orders.
LEMMA LargerTotal ==
  ASSUME NEW w \in [Orders -> Int], \A o \in Orders : w[o] >= 0,
         NEW R \in SUBSET Orders, NEW L \in SUBSET R
  PROVE  0 <= Total(w, L) /\ Total(w, L) <= Total(w, R)
<1> DEFINE T == {s \in SUBSET R : 0 <= Total(w, s) /\ Total(w, s \cap L) <= Total(w, s)
                                  /\ 0 <= Total(w, s \cap L)}
<1>1. ASSUME NEW s \in SUBSET R, \A x \in s : s \ {x} \in T PROVE s \in T
  <2>1. CASE s = {}
    <3>1. s \cap L = {}
      BY <2>1
    <3> QED
      BY <2>1, <3>1, Totals
  <2>2. CASE s # {}
    <3>1. PICK x \in s : TRUE
      BY <2>2
    <3> DEFINE c == s \cap L
    <3>2. c \in SUBSET Orders /\ (s \ {x}) \cap L = c \ {x}
      OBVIOUS
    <3>3. /\ Total(w, s) = w[x] + Total(w, s \ {x}) /\ w[x] \in Int /\ w[x] >= 0
          /\ Total(w, s) \in Int /\ Total(w, s \ {x}) \in Int
      BY Totals
    <3>4. 0 <= Total(w, s \ {x}) /\ Total(w, c \ {x}) <= Total(w, s \ {x}) /\ 0 <= Total(w, c \ {x})
      BY <1>1, <3>1, <3>2
    <3>5. Total(w, c) \in Int /\ Total(w, c \ {x}) \in Int
      BY <3>2, Totals
    <3>6. x \in c => Total(w, c) = w[x] + Total(w, c \ {x})
      BY <3>2, Totals
    <3>7. x \notin c => Total(w, c \ {x}) = Total(w, c)
      <4>1. x \notin c => c \ {x} = c
        OBVIOUS
      <4> HIDE DEF c
      <4> QED
        BY <4>1
    <3>8. Total(w, c) <= Total(w, s) /\ 0 <= Total(w, c) /\ 0 <= Total(w, s)
      <4> HIDE DEF c
      <4> QED
        BY <3>3, <3>4, <3>5, <3>6, <3>7
    <3> QED
      BY <3>8
  <2> QED
    BY <2>1, <2>2
<1> HIDE DEF T
<1>2. R \in T
  BY <1>1, OrdersFinite, SetBySet
<1>3. R \cap L = L
  OBVIOUS
<1> QED
  BY <1>2, <1>3 DEF T
-----------------------------------------------------------------------------
(* Arithmetic of the sizer and the drawdown controller.                    *)

\* A share of at most the whole is at most one hundred percent.
LEMMA ShareBound ==
  ASSUME NEW a \in Int, NEW b \in Int, 0 <= a, a <= b, 0 < b
  PROVE  (100 * a) \div b \in 0..100
<1> DEFINE q == (100 * a) \div b
<1>1. q \in Int /\ b * q <= 100 * a /\ 100 * a < b * q + b
  OBVIOUS
<1> HIDE DEF q
<1>2. ASSUME q < 0 PROVE FALSE
  <2>1. q + 1 <= 0
    BY <1>1, <1>2
  <2>2. b * (q + 1) <= 0
    BY <1>1, <2>1
  <2>3. b * (q + 1) = b * q + b
    BY <1>1
  <2> QED
    BY <1>1, <2>2, <2>3
<1>3. ASSUME q > 100 PROVE FALSE
  <2>1. q - 101 >= 0
    BY <1>1, <1>3
  <2>2. b * (q - 101) >= 0
    BY <1>1, <2>1
  <2>3. b * (q - 101) = b * q - 101 * b
    BY <1>1
  <2> QED
    BY <1>1, <2>2, <2>3
<1>4. q \in 0..100
  BY <1>1, <1>2, <1>3
<1> QED
  BY <1>4 DEF q

\* Dividing by one hundred rounds down and keeps the sign.
LEMMA Percent ==
  ASSUME NEW a \in Int
  PROVE  a \div 100 \in Int /\ 100 * (a \div 100) <= a /\ (a >= 0 => a \div 100 >= 0)
OBVIOUS

\* A product of amounts is an amount.
LEMMA Product ==
  ASSUME NEW a \in Nat, NEW b \in Nat
  PROVE  a * b \in Nat
OBVIOUS

\* The multiplier of the drawdown tiers is a percentage (get_multiplier), nothing at the
\* daily limit.
LEMMA MultiplierIs ==
  ASSUME bankroll \in Nat, peak \in Nat, daily \in Int, peak > 0
  PROVE  /\ Multiplier \in 0..100
         /\ DailyLimitHit => Multiplier = 0
<1>1. StopPct \in Nat /\ ReducePct \in Nat /\ ReducePct < StopPct
  BY CycleAssumption
<1>2. DailyLimitHit => Multiplier = 0
  BY DEF Multiplier
<1>3. ASSUME ~ DrawdownAtLeast(StopPct), DrawdownAtLeast(ReducePct)
      PROVE (100 * (StopPct * peak - 100 * (peak - bankroll))) \div ((StopPct - ReducePct) * peak) \in 0..100
  <2> DEFINE d == 100 * (peak - bankroll)
             s == StopPct * peak
             r == ReducePct * peak
  <2>1. d \in Int /\ s \in Int /\ r \in Int
    BY <1>1
  <2>2. d < s /\ r <= d
    BY <1>3, <2>1 DEF DrawdownAtLeast
  <2>3. (StopPct - ReducePct) * peak = s - r
    BY <1>1
  <2> HIDE DEF d, s, r
  <2>4. (100 * (s - d)) \div (s - r) \in 0..100
    <3> DEFINE a == s - d
               b == s - r
    <3>1. a \in Int /\ b \in Int /\ 0 <= a /\ a <= b /\ 0 < b
      BY <2>1, <2>2
    <3> HIDE DEF a, b
    <3>2. (100 * a) \div b \in 0..100
      BY <3>1, ShareBound
    <3> QED
      BY <3>2 DEF a, b
  <2> QED
    BY <2>3, <2>4 DEF d, s
<1> QED
  BY <1>2, <1>3 DEF Multiplier

\* A larger bankroll has a larger share.
LEMMA ShareGrows ==
  ASSUME NEW m \in Nat, NEW a \in Int, NEW b \in Int, a <= b
  PROVE  m * a <= m * b
<1>1. m * (b - a) >= 0
  OBVIOUS
<1>2. m * (b - a) = m * b - m * a
  OBVIOUS
<1> QED
  BY <1>1, <1>2

\* A position that is sized at all is sized by a positive multiplier and fits below the
\* portfolio limit next to the positions listed (calculate_position).
LEMMA SizeFits ==
  ASSUME bankroll \in Nat, mult \in 0..100, positions \subseteq Orders, rows \in [Orders -> RowRec],
         NEW o \in Orders, NEW want \in Wants
  PROVE  /\ PositionSize(o, want) \in Nat
         /\ PositionSize(o, want) > 0 => /\ mult > 0
              /\ 100 * (PositionSize(o, want) + Capital(positions)) <= MaxPortfolioPct * bankroll
              /\ 10000 * PositionSize(o, want) <= (bankroll * MaxPositionPct) * mult
<1> DEFINE same == {p \in positions : MarketOf(p) = MarketOf(o)}
           a == (bankroll * MaxPositionPct) \div 100
           p == (bankroll * MaxPortfolioPct) \div 100
           b == LargerOf(p - Capital(positions), 0)
           c == LargerOf((bankroll * MaxCategoryPct) \div 100 - Capital(same), 0)
           m == SmallestOf({want, a, b, c})
           limited == (m * mult) \div 100
           size == IF \/ Cardinality(positions) >= MaxPositions
                      \/ Cardinality(same) >= MaxPerCategory
                      \/ limited < MinPosition
                   THEN 0 ELSE limited
<1>1. /\ want \in Nat /\ MaxPositionPct \in Nat /\ MaxPortfolioPct \in Nat /\ MaxCategoryPct \in Nat
      /\ MinPosition \in Nat \ {0}
  BY CycleAssumption
<1>2. Capital(positions) \in Int /\ Capital(same) \in Int
  <2>1. [x \in Orders |-> rows[x].size] \in [Orders -> Int]
    BY DEF RowRec
  <2> QED
    BY <2>1, Totals DEF Capital
<1>3. PositionSize(o, want) = size
  BY DEF PositionSize
<1>4. bankroll * MaxPositionPct \in Nat /\ bankroll * MaxPortfolioPct \in Nat /\ bankroll * MaxCategoryPct \in Nat
  BY <1>1, Product
<1>5. a \in Nat /\ p \in Nat /\ b \in Nat /\ c \in Nat
  <2> HIDE DEF same
  <2> QED
    BY <1>2, <1>4, Percent DEF LargerOf
<1>6. /\ b = LargerOf(p - Capital(positions), 0)
      /\ 100 * p <= bankroll * MaxPortfolioPct /\ 100 * a <= bankroll * MaxPositionPct
  BY <1>4, Percent
<1> HIDE DEF same, a, b, c, p
<1>7. m \in {want, a, b, c} /\ m <= b /\ m <= a
  <2>1. want \in Int /\ a \in Int /\ b \in Int /\ c \in Int
    BY <1>1, <1>5
  <2> DEFINE S == {want, a, b, c}
  <2>2. \E x \in S : \A y \in S : x <= y
    BY <2>1
  <2>3. m = SmallestOf(S) /\ b \in S /\ a \in S
    OBVIOUS
  <2> HIDE DEF m, S
  <2>4. m \in S /\ m <= b /\ m <= a
    BY <2>2, <2>3 DEF SmallestOf
  <2> QED
    BY <2>4 DEF S
<1>8. m \in Nat
  BY <1>1, <1>5, <1>7
<1> HIDE DEF m
<1>9. limited \in Nat /\ limited <= m /\ (limited > 0 => mult > 0) /\ 100 * limited <= m * mult
  <2>1. m * mult \in Nat /\ m * mult <= 100 * m /\ (mult = 0 => m * mult = 0)
    BY <1>8
  <2> DEFINE k == m * mult
  <2>2. k \div 100 \in Int /\ 100 * (k \div 100) <= k /\ k \div 100 >= 0
    <3> HIDE DEF k
    <3> QED
      BY <2>1, Percent DEF k
  <2>3. limited = k \div 100 /\ k \in Nat /\ k <= 100 * m /\ (mult = 0 => k = 0)
    BY <2>1
  <2> HIDE DEF limited
  <2>4. k = m * mult
    OBVIOUS
  <2> HIDE DEF k
  <2>5. limited \in Nat /\ limited <= m /\ (limited > 0 => mult > 0) /\ 100 * limited <= k
    BY <1>8, <2>2, <2>3
  <2> QED
    BY <2>4, <2>5
<1> HIDE DEF limited
<1>10. size \in Nat /\ (size > 0 => size = limited)
  BY <1>1, <1>9
<1> HIDE DEF size
<1>11. ASSUME size > 0 PROVE size <= p - Capital(positions)
  <2>1. size <= b /\ b > 0
    BY <1>5, <1>7, <1>8, <1>9, <1>10, <1>11
  <2> QED
    BY <1>2, <1>5, <1>6, <1>10, <2>1 DEF LargerOf
<1>12. size > 0 => 100 * (size + Capital(positions)) <= MaxPortfolioPct * bankroll
  <2>1. bankroll * MaxPortfolioPct = MaxPortfolioPct * bankroll
    BY <1>1
  <2> DEFINE cap == Capital(positions)
             top == bankroll * MaxPortfolioPct
  <2> HIDE DEF cap, top
  <2>2. size > 0 => 100 * (size + cap) <= top
    BY <1>2, <1>4, <1>5, <1>6, <1>10, <1>11 DEF cap, top
  <2> QED
    BY <2>1, <2>2 DEF cap, top
<1>13. size > 0 => 10000 * size <= (bankroll * MaxPositionPct) * mult
  <2> DEFINE top == bankroll * MaxPositionPct
  <2>1. top \in Int /\ 100 * m <= top /\ 100 * m \in Int /\ mult \in Nat
    BY <1>4, <1>5, <1>6, <1>7, <1>8
  <2>2. (100 * m) * mult <= top * mult
    <3>1. \A i, j \in Int : \A k \in Nat : i <= j => k * i <= k * j
      BY ShareGrows
    <3> HIDE DEF top
    <3>2. mult * (100 * m) <= mult * top
      BY <2>1, <3>1
    <3> QED
      BY <1>8, <2>1, <3>2
  <2>3. (100 * m) * mult = 100 * (m * mult) /\ m * mult \in Int
    BY <1>8
  <2> DEFINE x == m * mult
             y == top * mult
  <2>4. 100 * limited <= x /\ 100 * x <= y /\ x \in Int /\ limited \in Int
    BY <1>9, <2>2, <2>3
  <2>5. y \in Int
    BY <2>1
  <2>6. size > 0 => 10000 * size <= y
    <3> HIDE DEF x, y
    <3> QED
      BY <1>10, <2>4, <2>5
  <2> QED
    BY <2>6
<1> QED
  BY <1>3, <1>9, <1>10, <1>12, <1>13

-----------------------------------------------------------------------------
(* Types.                                                                  *)

\* A fee on an amount is an amount.
LEMMA FeeTyped == ASSUME NEW n \in Nat PROVE FeeOn(n) \in Nat
<1>1. FeePct \in Nat
  BY CycleAssumption
<1>2. n * FeePct \in Nat
  BY <1>1, Product
<1> DEFINE k == n * FeePct
<1>3. k \in Nat => k \div 100 \in Nat
  <2> HIDE DEF k
  <2> QED
    BY Percent
<1> QED
  BY <1>2, <1>3 DEF FeeOn

\* Charging and closing a row keep it a row; closing changes its status and profit only,
\* charging its fees.
LEMMA RowsTyped ==
  ASSUME NEW r \in RowRec
  PROVE  /\ \A pct \in Int :
              /\ Closed(r, pct) \in RowRec
              /\ Closed(r, pct) = [r EXCEPT !.st = "closed", !.pnl = Closed(r, pct).pnl]
         /\ \A amount \in Nat : ChargeEntry(r, amount) \in RowRec
         /\ ChargeExit(r) \in RowRec
         /\ Traded(r) \in Nat
<1>1. Traded(r) \in Nat
  BY DEF Traded, RowRec
<1>2. \A n, i \in Nat : /\ [r EXCEPT !.fee = n, !.entryFees = i] \in RowRec
                       /\ [r EXCEPT !.fee = n, !.exitFees = i] \in RowRec
  BY DEF RowRec
<1>3. \A n \in Nat : r.fee + n \in Nat /\ r.entryFees + 1 \in Nat /\ r.exitFees + 1 \in Nat
  BY DEF RowRec
<1>4. \A amount \in Nat : ChargeEntry(r, amount) \in RowRec
  BY <1>2, <1>3, FeeTyped DEF ChargeEntry
<1>5. ChargeExit(r) \in RowRec
  <2>1. FeeOn(Traded(r)) \in Nat
    BY <1>1, FeeTyped
  <2> QED
    BY <1>2, <1>3, <2>1 DEF ChargeExit
<1>6. ASSUME NEW pct \in Int
      PROVE  /\ Closed(r, pct) \in RowRec
             /\ Closed(r, pct) = [r EXCEPT !.st = "closed", !.pnl = Closed(r, pct).pnl]
  <2> DEFINE k == pct * Traded(r)
             gain == k \div 100
             n == gain - r.fee
  <2>1. k \in Int
    BY <1>1
  <2>2. gain \in Int
    <3> HIDE DEF k
    <3> QED
      BY <2>1
  <2>3. Closed(r, pct) = [r EXCEPT !.st = "closed", !.pnl = n]
    BY DEF Closed
  <2> HIDE DEF gain
  <2>4. n \in Int
    BY <2>2 DEF RowRec
  <2> HIDE DEF n
  <2>5. \A m \in Int : /\ [r EXCEPT !.st = "closed", !.pnl = m] \in RowRec
                      /\ [r EXCEPT !.st = "closed", !.pnl = m].pnl = m
    BY DEF RowRec
  <2> QED
    BY <2>3, <2>4, <2>5
<1> QED
  BY <1>1, <1>4, <1>5, <1>6

\* A cancelled order is an order; only its status changes, and a leg that was armed.
LEMMA CancelledTyped ==
  ASSUME NEW r \in OrderRec
  PROVE  /\ Cancelled(r) \in OrderRec
         /\ Cancelled(r).st = "cancelled" /\ Cancelled(r).size = r.size
         /\ Cancelled(r).paper = r.paper /\ Cancelled(r).filled = r.filled
         /\ Cancelled(r).leg = "sold" <=> r.leg = "sold"
BY DEF Cancelled, OrderRec, Statuses

\* The audit closes phantoms, at a profit or loss an exit may have, and leaves the other rows.
LEMMA AuditIs ==
  ASSUME Audit, NEW o \in Orders
  PROVE  IF AutoClose /\ o \in Phantoms
         THEN /\ rows[o].st = "open" /\ ~ Known(o)
              /\ \E pct \in GrossPct \cup {0} : pct \in Int /\ rows'[o] = Closed(rows[o], pct)
         ELSE rows'[o] = rows[o]
<1>1. PICK pct \in [Phantoms -> GrossPct \cup {0}] :
        rows' = [q \in Orders |-> IF AutoClose /\ q \in Phantoms THEN Closed(rows[q], pct[q]) ELSE rows[q]]
  BY DEF Audit
<1>2. rows'[o] = IF AutoClose /\ o \in Phantoms THEN Closed(rows[o], pct[o]) ELSE rows[o]
  BY <1>1
<1>3. o \in Phantoms => rows[o].st = "open" /\ ~ Known(o)
  BY DEF Phantoms, OpenRows
<1>4. GrossPct \cup {0} \subseteq Int
  BY CycleAssumption
<1>5. o \in Phantoms => pct[o] \in GrossPct \cup {0}
  BY <1>1
<1> QED
  BY <1>2, <1>3, <1>4, <1>5

\* The reconciler's row, after an entry's event, is the row with the order's status.
LEMMA SyncedIs ==
  ASSUME rows \in [Orders -> RowRec], orders \in [Orders -> OrderRec], NEW o \in Orders
  PROVE  /\ Synced(o) \in RowRec /\ Synced(o).st = rows[o].st /\ Synced(o).pnl = rows[o].pnl
         /\ Synced(o).entryFees = rows[o].entryFees /\ Synced(o).exitFees = rows[o].exitFees
         /\ Synced(o).size = rows[o].size /\ Synced(o).fee = rows[o].fee
         /\ rows[o].st # "none" => Synced(o).filled = orders[o].filled
         /\ rows[o].st = "none" => Synced(o) = rows[o]
BY DEF Synced, RowRec, OrderRec


-----------------------------------------------------------------------------
(* The invariant.                                                          *)

\* An event of this kind about the order waits to be applied to the table.
Listed(q, o, kind) == \E i \in DOMAIN q : q[i] = <<o, kind>>
Waiting(o, kind) == Listed(events, o, kind)

\* The events of a list are in the order of the executor's pass; an order has at most two of
\* them, its entry's before its leg's.
Before(a, b) == a[1] < b[1] \/ (a[1] = b[1] /\ a[2] = "entry" /\ b[2] = "exit")
Ordered(q) == \A i, j \in DOMAIN q : i < j => Before(q[i], q[j])

\* What a visit may leave: nothing, the event of the entry, of the leg, or both in that order.
VisitEvents(o) == {<<>>, <<<<o, "entry">>>>, <<<<o, "exit">>>>, <<<<o, "entry">>, <<o, "exit">>>>}

\* Everything has its type; the best bankroll is the best; a cycle that runs has failures left.
Types ==
  /\ TypeOK
  /\ events \in Seq(Orders \X {"entry", "exit"})
  /\ history \in [highest: Nat, disturbed: BOOLEAN, emergency: BOOLEAN,
                  lost: SUBSET Orders, today: Int]
  /\ bankroll <= history.highest /\ Initial <= history.highest /\ Initial <= peak
  /\ pc # "idle" => failures < MaxFailures

\* The events of a pass are in its order, and of orders it has visited.
Queue ==
  /\ pc \notin {"reconcile", "apply", "close"} => events = <<>>
  /\ pc = "reconcile" => \A i \in DOMAIN events : events[i][1] <= turn
  /\ pc = "close" => events # <<>> /\ events[1][2] = "exit"
  /\ Ordered(events)

\* One order in the executor, the table and between them.
Books(o) ==
  /\ o > used => orders[o] = NoOrder /\ rows[o] = NoRow
  /\ ~Known(o) => orders[o] = NoOrder
  /\ Waiting(o, "entry") => Known(o)
  /\ Waiting(o, "exit") => orders[o].leg = "sold"
  /\ o <= used /\ o \notin history.lost => Known(o)
  /\ Known(o) /\ o \notin history.lost /\ ~ (pc = "record" /\ o = used) => rows[o].st # "none"
  /\ Known(o) /\ rows[o].st = "closed" => orders[o].leg = "sold" /\ ~ Waiting(o, "exit")
  /\ orders[o].leg = "sold" /\ o \notin history.lost /\ ~ Waiting(o, "exit")
       => rows[o].st = "closed"

\* What was charged, and what may still be: a live entry until it is filled, an exit once.
Fees(o) ==
  /\ rows[o].entryFees <= 1 /\ rows[o].exitFees <= 1
  /\ Known(o) /\ ~ orders[o].paper /\ rows[o].entryFees > 0
       => orders[o].st \notin OpenEntry /\ ~ Waiting(o, "entry")
  /\ Known(o) /\ orders[o].leg # "sold" => rows[o].exitFees = 0
  /\ Waiting(o, "exit") /\ ~ (pc = "close" /\ events[1][1] = o) => rows[o].exitFees = 0

\* While the cycle places orders, its list of positions is the table's.
Placing ==
  /\ pc = "record" => used \in Orders /\ rows[used] = NoRow
  /\ pc \in {"place", "record"} => positions = OpenRows

\* The order about to be recorded fits below the portfolio limit next to what is open.
Fits ==
  /\ ExposureCapped
  /\ pc = "record" =>
       100 * (orders[used].size + Capital(OpenRows)) <= MaxPortfolioPct * history.highest

\* The controller's loss is today's, and placing starts only above the limit.
Today ==
  /\ history.today = IF dailyOld THEN 0 ELSE daily
  /\ DailyLimit > 0 /\ ((pc = "place" /\ mult > 0) \/ pc = "record")
       => history.today > -DailyLimit

CycleInv ==
  /\ Types /\ Queue /\ Placing /\ Fits /\ Today
  /\ \A o \in Orders : Books(o) /\ Fees(o)

-----------------------------------------------------------------------------
(* Every step keeps the types.                                             *)

\* Each stage of the cycle, and what happens around it, keeps every value in its type.
LEMMA TypesStep == Types /\ Queue /\ Placing /\ [Next]_vars => Types'
<1> SUFFICES ASSUME Types, Queue, Placing, [Next]_vars PROVE Types'
  OBVIOUS
<1>1. /\ proc \in {"up", "stopping", "closed", "down"} /\ pc \in Stages
      /\ mode \in [executor: BOOLEAN, agent: BOOLEAN]
      /\ orders \in [Orders -> OrderRec] /\ rows \in [Orders -> RowRec]
      /\ used \in 0..NOrders /\ turn \in Nat /\ mult \in 0..100
      /\ positions \subseteq Orders
      /\ bankroll \in Nat /\ peak \in Nat /\ daily \in Int /\ failures \in 0..MaxFailures
      /\ dailyOld \in BOOLEAN /\ killed \in BOOLEAN
      /\ events \in Seq(Orders \X {"entry", "exit"})
      /\ history \in [highest: Nat, disturbed: BOOLEAN, emergency: BOOLEAN,
                      lost: SUBSET Orders, today: Int]
      /\ bankroll <= history.highest /\ Initial <= history.highest /\ Initial <= peak
      /\ pc # "idle" => failures < MaxFailures
  BY DEF Types, TypeOK
<1>2. /\ NOrders \in Nat /\ Initial \in Nat \ {0} /\ MaxFailures \in Nat \ {0}
      /\ GrossPct \subseteq Int /\ DryRunSettings \subseteq BOOLEAN /\ Wants \subseteq Nat
  BY CycleAssumption
<1> DEFINE Typed ==
      /\ proc' \in {"up", "stopping", "closed", "down"} /\ pc' \in Stages
      /\ mode' \in [executor: BOOLEAN, agent: BOOLEAN]
      /\ orders' \in [Orders -> OrderRec] /\ rows' \in [Orders -> RowRec]
      /\ used' \in 0..NOrders /\ turn' \in Nat /\ mult' \in 0..100
      /\ positions' \subseteq Orders
      /\ bankroll' \in Nat /\ peak' \in Nat /\ daily' \in Int /\ failures' \in 0..MaxFailures
      /\ dailyOld' \in BOOLEAN /\ killed' \in BOOLEAN
      /\ events' \in Seq(Orders \X {"entry", "exit"})
      /\ history' \in [highest: Nat, disturbed: BOOLEAN, emergency: BOOLEAN,
                       lost: SUBSET Orders, today: Int]
      /\ bankroll' <= history'.highest /\ Initial <= history'.highest /\ Initial <= peak'
      /\ pc' # "idle" => failures' < MaxFailures
<1>3. Typed => Types'
  <2>1. \A q \in Seq(Orders \X {"entry", "exit"}) : \A i \in DOMAIN q : q[i] \in Orders \X {"entry", "exit"}
    OBVIOUS
  <2> QED
    BY <2>1 DEF Types, TypeOK
<1>4. \A s, f : s \in BOOLEAN => ModeOf(s, f) \in [executor: BOOLEAN, agent: BOOLEAN]
  BY DEF ModeOf
<1>5. \A x, y \in Int : LargerOf(x, y) \in {x, y} /\ LargerOf(x, y) >= x /\ LargerOf(x, y) >= y
  BY DEF LargerOf
<1> USE DEF At, Running, DbOpen, local, money, outside, Stages
<1>6. CASE UNCHANGED vars
  BY <1>1, <1>3, <1>6 DEF vars
<1>7. CASE StartCycle
  BY <1>1, <1>3, <1>7 DEF StartCycle
<1>8. CASE SkipCycle
  BY <1>1, <1>3, <1>8 DEF SkipCycle, vars
<1>9. CASE Pause
  BY <1>1, <1>2, <1>3, <1>9 DEF Pause
<1>10. CASE Scanned
  BY <1>1, <1>3, <1>10 DEF Scanned
<1>11. CASE Reconciled \/ Applied \/ PlacingDone
  <2>1. CASE Reconciled
    BY <1>1, <1>3, <2>1 DEF Reconciled
  <2>2. CASE Applied
    BY <1>1, <1>3, <2>2 DEF Applied
  <2>3. CASE PlacingDone
    BY <1>1, <1>3, <2>3 DEF PlacingDone
  <2> QED
    BY <1>11, <2>1, <2>2, <2>3
<1>12. CASE ShutdownCloseTracker
  BY <1>1, <1>3, <1>12 DEF ShutdownCloseTracker
<1>13. CASE Restart
  BY <1>1, <1>2, <1>3, <1>4, <1>13 DEF Restart
<1>14. CASE FlipSwitch
  <2>1. /\ killed' \in BOOLEAN
        /\ UNCHANGED <<proc, mode, pc, orders, used, local, money, failures, rows>>
    BY <1>1, <1>14 DEF FlipSwitch
  <2>2. history' \in [highest: Nat, disturbed: BOOLEAN, emergency: BOOLEAN,
                      lost: SUBSET Orders, today: Int] /\ history'.highest = history.highest
    BY <1>1, <1>14 DEF FlipSwitch
  <2> QED
    BY <1>1, <1>3, <2>1, <2>2
<1>15. CASE Midnight
  BY <1>1, <1>3, <1>15 DEF Midnight
<1>16. CASE EnterSizing
  <2>1. Multiplier \in 0..100
    BY <1>1, <1>2, MultiplierIs
  <2>2. positions' \subseteq Orders
    BY <1>16 DEF EnterSizing, OpenRows
  <2>3. peak' \in Nat /\ Initial <= peak'
    BY <1>1, <1>2, <1>5, <1>16 DEF EnterSizing
  <2>4. mult' \in 0..100 /\ pc' \in Stages
    BY <1>1, <1>16, <2>1 DEF EnterSizing
  <2>5. UNCHANGED <<proc, mode, orders, used, turn, events, bankroll, daily, dailyOld, failures,
                    rows, killed, history>> /\ pc # "idle"
    BY <1>16 DEF EnterSizing
  <2> QED
    BY <1>1, <1>3, <2>2, <2>3, <2>4, <2>5
<1>17. CASE EmergencyHalt
  <2>1. history' \in [highest: Nat, disturbed: BOOLEAN, emergency: BOOLEAN,
                      lost: SUBSET Orders, today: Int] /\ history'.highest = history.highest
    BY <1>1, <1>17 DEF EmergencyHalt
  <2> QED
    BY <1>1, <1>3, <1>17, <2>1 DEF EmergencyHalt, LocalsEnd
<1>18. CASE Account
  <2>1. Initial + Realised - Capital(positions) \in Int
    <3>1. [o \in Orders |-> rows[o].size] \in [Orders -> Int] /\ [o \in Orders |-> rows[o].pnl] \in [Orders -> Int]
      BY <1>1 DEF RowRec
    <3>2. ClosedRows \in SUBSET Orders
      BY DEF ClosedRows
    <3>3. Realised \in Int /\ Capital(positions) \in Int
      BY <1>1, <3>1, <3>2, Totals DEF Realised, Capital
    <3> QED
      BY <1>2, <3>3
  <2>2. bankroll' \in Nat /\ peak' \in Nat /\ Initial <= peak'
    <3>1. bankroll' \in Nat
      BY <1>5, <1>18, <2>1 DEF Account
    <3> QED
      BY <1>1, <1>2, <1>5, <1>18, <3>1 DEF Account
  <2> DEFINE top == LargerOf(history.highest, bankroll')
  <2>3. top \in Nat /\ bankroll' <= top /\ Initial <= top
    BY <1>1, <1>2, <1>5, <2>2
  <2>4. history' = [history EXCEPT !.highest = top]
    BY <1>18 DEF Account
  <2> HIDE DEF top
  <2>5. history' \in [highest: Nat, disturbed: BOOLEAN, emergency: BOOLEAN,
                      lost: SUBSET Orders, today: Int] /\ history'.highest = top
    BY <1>1, <2>3, <2>4
  <2>6. /\ UNCHANGED <<proc, mode, orders, used, turn, events, mult, daily, dailyOld, failures, rows, killed>>
        /\ pc' = "expire" /\ positions' = {} /\ pc # "idle"
    BY <1>18 DEF Account
  <2> QED
    BY <1>1, <1>3, <2>2, <2>3, <2>5, <2>6
<1>19. CASE Fail
  <2>1. history' \in [highest: Nat, disturbed: BOOLEAN, emergency: BOOLEAN,
                      lost: SUBSET Orders, today: Int] /\ history'.highest = history.highest
    <3>1. Unwritten \subseteq Orders
      BY <1>1, <1>19 DEF Unwritten, Fail, Placing
    <3> QED
      BY <1>1, <1>19, <3>1 DEF Fail
  <2> QED
    BY <1>1, <1>2, <1>3, <1>19, <2>1 DEF Fail, LocalsEnd
<1>20. CASE Exit \/ Crash
  <2>1. Forget /\ UNCHANGED mode
    BY <1>20 DEF Exit, Crash
  <2>2. NoOrder \in OrderRec
    BY DEF NoOrder, OrderRec, Statuses
  <2>3. Unwritten \subseteq Orders
    <3>1. CASE pc = "record"
      BY <1>1, <3>1 DEF Unwritten, Placing
    <3>2. CASE pc # "record"
      BY <1>1, <3>2 DEF Unwritten
    <3> QED
      BY <3>1, <3>2
  <2>4. history' \in [highest: Nat, disturbed: BOOLEAN, emergency: BOOLEAN,
                      lost: SUBSET Orders, today: Int] /\ history'.highest = history.highest
    <3> DEFINE gone == history.lost \cup Unwritten \cup {o \in Orders : Known(o)}
    <3>1. gone \in SUBSET Orders
      BY <1>1, <2>3
    <3>2. history' = [history EXCEPT !.disturbed = TRUE, !.emergency = FALSE, !.today = 0, !.lost = gone]
      BY <2>1 DEF Forget
    <3> HIDE DEF gone
    <3> DEFINE h == [history EXCEPT !.disturbed = TRUE, !.emergency = FALSE]
               k == [h EXCEPT !.today = 0]
               l == [k EXCEPT !.lost = gone]
    <3>3. h \in [highest: Nat, disturbed: BOOLEAN, emergency: BOOLEAN, lost: SUBSET Orders, today: Int]
          /\ h.highest = history.highest
      BY <1>1
    <3>4. history' = l
      BY <1>1, <3>2
    <3> HIDE DEF h
    <3>5. k \in [highest: Nat, disturbed: BOOLEAN, emergency: BOOLEAN, lost: SUBSET Orders, today: Int]
          /\ k.highest = h.highest
      BY <3>3
    <3> HIDE DEF k
    <3>6. l \in [highest: Nat, disturbed: BOOLEAN, emergency: BOOLEAN, lost: SUBSET Orders, today: Int]
          /\ l.highest = k.highest
      BY <3>1, <3>5
    <3> QED
      BY <3>3, <3>4, <3>5, <3>6
  <2>5. orders' \in [Orders -> OrderRec]
    BY <2>1, <2>2 DEF Forget
  <2>6. /\ proc' = "down" /\ pc' = "idle" /\ turn' = 0 /\ events' = <<>> /\ positions' = {} /\ mult' = 100
        /\ bankroll' = Initial /\ peak' = Initial /\ daily' = 0 /\ dailyOld' = FALSE /\ failures' = 0
        /\ UNCHANGED <<mode, used, rows, killed>>
    BY <2>1 DEF Forget, LocalsEnd
  <2>7. events' \in Seq(Orders \X {"entry", "exit"}) /\ positions' \subseteq Orders /\ mult' \in 0..100
    BY <2>6
  <2>8. /\ bankroll' \in Nat /\ peak' \in Nat /\ daily' \in Int /\ failures' \in 0..MaxFailures
        /\ Initial <= peak' /\ bankroll' <= history'.highest /\ Initial <= history'.highest
    BY <1>1, <1>2, <2>4, <2>6
  <2>9. dailyOld' \in BOOLEAN
    BY <2>6
  <2>10. /\ proc' \in {"up", "stopping", "closed", "down"} /\ pc' = "idle" /\ turn' \in Nat
         /\ mode' \in [executor: BOOLEAN, agent: BOOLEAN] /\ used' \in 0..NOrders
         /\ rows' \in [Orders -> RowRec] /\ killed' \in BOOLEAN
    BY <1>1, <2>6
  <2> QED
    BY <1>3, <2>4, <2>5, <2>7, <2>8, <2>9, <2>10
<1>21. CASE \E o \in Orders : EntryFills(o) \/ VenueCancels(o) \/ LegTriggers(o) \/ LegExpires(o)
  <2>1. PICK o \in Orders : EntryFills(o) \/ VenueCancels(o) \/ LegTriggers(o) \/ LegExpires(o)
    BY <1>21
  <2>2. o \in Nat
    BY DEF Orders
  <2>3. ASSUME NEW order \in OrderRec, NEW evs \in Seq(Orders \X {"entry", "exit"}), Visit(o, order, evs)
        PROVE Types'
    <3>1. events \o evs \in Seq(Orders \X {"entry", "exit"})
      BY <1>1
    <3> QED
      BY <1>1, <1>3, <2>2, <2>3, <3>1 DEF Visit
  <2>4. orders[o] \in OrderRec
    BY <1>1
  <2>5. /\ <<<<o, "entry">>>> \in Seq(Orders \X {"entry", "exit"})
        /\ <<<<o, "exit">>>> \in Seq(Orders \X {"entry", "exit"})
        /\ <<<<o, "entry">>, <<o, "exit">>>> \in Seq(Orders \X {"entry", "exit"})
        /\ <<>> \in Seq(Orders \X {"entry", "exit"})
    OBVIOUS
  <2>6. CASE EntryFills(o)
    <3>1. PICK amount \in {orders[o].size \div 2, orders[o].size - orders[o].filled},
               leg \in LegsAfterFill(orders[o].leg), evs \in VisitEvents(o) :
            LET bought == orders[o].filled + amount IN
            /\ bought <= orders[o].size
            /\ Visit(o, [orders[o] EXCEPT !.filled = bought, !.leg = leg,
                           !.st = IF bought = orders[o].size THEN "filled" ELSE "partially_filled"], evs)
      BY <2>6 DEF EntryFills, VisitEvents
    <3>2. orders[o].filled + amount \in Nat /\ leg \in {"none", "armed", "sold", "gone"}
      BY <2>4 DEF OrderRec, LegsAfterFill
    <3> DEFINE bought == orders[o].filled + amount
    <3> HIDE DEF bought
    <3>3. bought \in Nat
      BY <3>2 DEF bought
    <3>4. [orders[o] EXCEPT !.filled = bought, !.leg = leg,
                           !.st = IF bought = orders[o].size THEN "filled" ELSE "partially_filled"] \in OrderRec
      BY <2>4, <3>2, <3>3 DEF OrderRec, Statuses, OpenEntry
    <3>5. evs \in Seq(Orders \X {"entry", "exit"})
      BY <2>5 DEF VisitEvents
    <3> QED
      BY <2>3, <3>1, <3>4, <3>5 DEF bought
  <2>7. CASE VenueCancels(o)
    <3>1. [orders[o] EXCEPT !.st = "cancelled"] \in OrderRec
      BY <2>4 DEF OrderRec, Statuses
    <3> QED
      BY <2>3, <2>5, <2>7, <3>1 DEF VenueCancels
  <2>8. CASE LegTriggers(o)
    <3>1. [orders[o] EXCEPT !.leg = "sold"] \in OrderRec
      BY <2>4 DEF OrderRec, Statuses
    <3> QED
      BY <2>3, <2>5, <2>8, <3>1 DEF LegTriggers
  <2>9. CASE LegExpires(o)
    <3>1. [orders[o] EXCEPT !.leg = "gone"] \in OrderRec
      BY <2>4 DEF OrderRec, Statuses
    <3> QED
      BY <2>3, <2>5, <2>9, <3>1 DEF LegExpires
  <2> QED
    BY <2>1, <2>6, <2>7, <2>8, <2>9
<1>22. CASE ApplyEntry
  <2>1. /\ events # <<>> /\ Head(events) \in Orders \X {"entry", "exit"}
        /\ Tail(events) \in Seq(Orders \X {"entry", "exit"})
    BY <1>1, <1>22 DEF ApplyEntry
  <2> DEFINE o == Head(events)[1]
             row == IF /\ Synced(o).st # "none" /\ ~orders[o].paper /\ orders[o].st = "filled"
                       /\ Synced(o).fee = 0
                    THEN ChargeEntry(Synced(o), Traded(Synced(o))) ELSE Synced(o)
  <2>2. o \in Orders
    BY <2>1
  <2>3. rows' = [rows EXCEPT ![o] = row]
    BY <1>22 DEF ApplyEntry
  <2> HIDE DEF o
  <2>4. Synced(o) \in RowRec
    BY <1>1, <2>2, SyncedIs
  <2>5. ChargeEntry(Synced(o), Traded(Synced(o))) \in RowRec
    <3>1. Traded(Synced(o)) \in Nat
      BY <2>4, RowsTyped
    <3> QED
      BY <2>4, <3>1, RowsTyped
  <2>6. row \in RowRec
    BY <2>4, <2>5
  <2> HIDE DEF row
  <2>7. rows' \in [Orders -> RowRec]
    BY <1>1, <2>3, <2>6
  <2> QED
    BY <1>1, <1>3, <1>22, <2>1, <2>7 DEF ApplyEntry
<1>23. CASE ApplyExitFee
  <2>1. events # <<>> /\ Head(events) \in Orders \X {"entry", "exit"}
    BY <1>1, <1>23 DEF ApplyExitFee
  <2> DEFINE o == Head(events)[1]
  <2>2. o \in Orders /\ rows[o] \in RowRec
    BY <1>1, <2>1
  <2>3. rows' = [rows EXCEPT ![o] = IF @.st = "none" THEN @ ELSE ChargeExit(@)]
    BY <1>23 DEF ApplyExitFee
  <2>4. ChargeExit(rows[o]) \in RowRec
    BY <2>2, RowsTyped
  <2>5. rows' \in [Orders -> RowRec]
    <3> HIDE DEF o
    <3> QED
      BY <1>1, <2>2, <2>3, <2>4
  <2> QED
    BY <1>1, <1>3, <1>23, <2>5 DEF ApplyExitFee
<1>24. CASE ApplyClose
  <2>1. /\ events # <<>> /\ Head(events) \in Orders \X {"entry", "exit"}
        /\ Tail(events) \in Seq(Orders \X {"entry", "exit"})
    BY <1>1, <1>24 DEF ApplyClose, Queue
  <2> DEFINE o == Head(events)[1]
             row(pct) == IF rows[o].st = "none" THEN rows[o] ELSE Closed(rows[o], pct)
  <2>2. o \in Orders /\ rows[o] \in RowRec
    BY <1>1, <2>1
  <2>3. PICK pct \in GrossPct :
          /\ rows' = [rows EXCEPT ![o] = row(pct)]
          /\ RecordTradePnl(row(pct).pnl)
          /\ history' = [history EXCEPT !.today = @ + row(pct).pnl]
    BY <1>24 DEF ApplyClose
  <2> DEFINE r == row(pct)
  <2>4. r \in RowRec
    BY <1>2, <2>2, <2>3, RowsTyped
  <2> HIDE DEF r
  <2>5. rows' = [rows EXCEPT ![o] = r] /\ RecordTradePnl(r.pnl) /\ history' = [history EXCEPT !.today = @ + r.pnl]
    BY <2>3 DEF r
  <2> HIDE DEF o
  <2>6. r.pnl \in Int
    BY <2>4 DEF RowRec
  <2>7. /\ rows' \in [Orders -> RowRec] /\ daily' \in Int /\ dailyOld' \in BOOLEAN
        /\ history' \in [highest: Nat, disturbed: BOOLEAN, emergency: BOOLEAN,
                         lost: SUBSET Orders, today: Int] /\ history'.highest = history.highest
    <3>1. rows' \in [Orders -> RowRec]
      BY <1>1, <2>4, <2>5
    <3> DEFINE n == r.pnl
    <3> HIDE DEF n
    <3>2. n \in Int /\ RecordTradePnl(n) /\ history' = [history EXCEPT !.today = @ + n]
      BY <2>5, <2>6 DEF n
    <3>3. daily' \in Int /\ dailyOld' \in BOOLEAN
      <4>1. CASE n = 0
        BY <1>1, <3>2, <4>1 DEF RecordTradePnl
      <4>2. CASE n # 0
        <5>1. daily' = (IF dailyOld THEN 0 ELSE daily) + n /\ dailyOld' = FALSE
          BY <3>2, <4>2 DEF RecordTradePnl
        <5>2. daily' \in Int
          BY <1>1, <3>2, <5>1
        <5>3. dailyOld' \in BOOLEAN
          BY <5>1
        <5> QED
          BY <5>2, <5>3
      <4> QED
        BY <4>1, <4>2
    <3>4. history.today + n \in Int
      BY <1>1, <3>2
    <3>5. history' \in [highest: Nat, disturbed: BOOLEAN, emergency: BOOLEAN,
                        lost: SUBSET Orders, today: Int] /\ history'.highest = history.highest
      BY <1>1, <3>2, <3>4
    <3> QED
      BY <3>1, <3>3, <3>5
  <2> QED
    BY <1>1, <1>3, <1>24, <2>1, <2>7 DEF ApplyClose
<1>25. CASE CloseRollsBack
  <2>1. /\ events # <<>> /\ Head(events) \in Orders \X {"entry", "exit"}
        /\ Tail(events) \in Seq(Orders \X {"entry", "exit"})
    BY <1>1, <1>25 DEF CloseRollsBack, Queue
  <2>2. history' \in [highest: Nat, disturbed: BOOLEAN, emergency: BOOLEAN,
                      lost: SUBSET Orders, today: Int] /\ history'.highest = history.highest
    BY <1>1, <1>25, <2>1 DEF CloseRollsBack
  <2> QED
    BY <1>1, <1>3, <1>25, <2>1, <2>2 DEF CloseRollsBack
<1>26. CASE EmergencyCancel
  <2>1. orders' \in [Orders -> OrderRec]
    BY <1>1, <1>26, CancelledTyped DEF EmergencyCancel
  <2> QED
    BY <1>1, <1>3, <1>26, <2>1 DEF EmergencyCancel
<1>27. CASE ShutdownCancel
  <2>1. orders' \in [Orders -> OrderRec]
    BY <1>1, <1>27, CancelledTyped DEF ShutdownCancel
  <2> QED
    BY <1>1, <1>3, <1>27, <2>1 DEF ShutdownCancel
<1>28. CASE Expire
  <2>1. orders' \in [Orders -> OrderRec]
    BY <1>1, <1>28, CancelledTyped DEF Expire
  <2>2. rows' \in [Orders -> RowRec]
    <3>1. ASSUME NEW r \in RowRec PROVE [r EXCEPT !.entry = "cancelled"] \in RowRec
      BY DEF RowRec, Statuses
    <3>2. \A o \in Orders : rows[o] \in RowRec
      BY <1>1
    <3> HIDE DEF RowRec
    <3>3. \A o \in Orders : rows[o] \in RowRec /\ [rows[o] EXCEPT !.entry = "cancelled"] \in RowRec
      BY <3>1, <3>2
    <3> QED
      BY <1>28, <3>3 DEF Expire
  <2> QED
    BY <1>1, <1>3, <1>28, <2>1, <2>2 DEF Expire
<1>29. CASE Audit
  <2>1. rows' \in [Orders -> RowRec]
    <3>1. ASSUME NEW o \in Orders PROVE rows'[o] \in RowRec
      <4>1. rows[o] \in RowRec
        BY <1>1
      <4> QED
        BY <1>29, <4>1, AuditIs, RowsTyped
    <3>2. rows' = [o \in Orders |-> rows'[o]]
      BY <1>29 DEF Audit
    <3> QED
      BY <3>1, <3>2
  <2> QED
    BY <1>1, <1>2, <1>3, <1>29, <2>1 DEF Audit
<1>30. CASE PlaceOrder
  <2> DEFINE o == used + 1
  <2>1. o \in Orders /\ o \in 0..NOrders
    BY <1>1, <1>2, <1>30 DEF PlaceOrder, Orders
  <2>2. PICK want \in Wants :
          LET placed == [NoOrder EXCEPT !.st = "placed", !.size = PositionSize(o, want), !.paper = mode.executor] IN
          orders' = [orders EXCEPT ![o] =
            IF placed.paper /\ FillOnPlace
            THEN [placed EXCEPT !.st = "filled", !.filled = PositionSize(o, want), !.leg = "armed"]
            ELSE placed]
    BY <1>30 DEF PlaceOrder
  <2> DEFINE size == PositionSize(o, want)
             placed == [NoOrder EXCEPT !.st = "placed", !.size = size, !.paper = mode.executor]
             filled == [placed EXCEPT !.st = "filled", !.filled = size, !.leg = "armed"]
  <2> HIDE DEF o
  <2>3. size \in Nat
    BY <1>1, <2>1, SizeFits
  <2>4. orders' = [orders EXCEPT ![o] = IF placed.paper /\ FillOnPlace THEN filled ELSE placed]
    BY <2>2
  <2> HIDE DEF size
  <2>5. placed \in OrderRec /\ filled \in OrderRec
    BY <1>1, <2>3 DEF NoOrder, OrderRec, Statuses, OpenEntry
  <2> HIDE DEF placed, filled
  <2>6. orders' \in [Orders -> OrderRec]
    BY <1>1, <2>4, <2>5
  <2>7. used' = o /\ turn' = turn + 1 /\ pc' = "record" /\ UNCHANGED <<proc, events, positions, mult, money, failures, rows, outside, history>>
    BY <1>30 DEF PlaceOrder, o
  <2> QED
    BY <1>1, <1>3, <1>30, <2>1, <2>6, <2>7 DEF PlaceOrder
<1>31. CASE Record
  <2>1. used \in Orders /\ orders[used] \in OrderRec
    BY <1>1, <1>31 DEF Record, Placing
  <2> DEFINE order == orders[used]
             row == [NoRow EXCEPT !.st = "open", !.size = order.size,
                       !.filled = order.filled, !.entry = order.st]
             r == IF order.paper \/ order.st = "filled" THEN ChargeEntry(row, row.size) ELSE row
  <2>2. /\ rows' = [rows EXCEPT ![used] = r]
        /\ bankroll' = IF order.st = "filled" THEN LargerOf(0, bankroll - order.size) ELSE bankroll
        /\ positions' = OpenRows \cup {used}
    BY <1>31 DEF Record
  <2>3. row \in RowRec /\ row.size \in Nat
    <3>1. NoRow \in RowRec
      BY DEF NoRow, RowRec, Statuses
    <3>3. \A q \in RowRec : \A n, k \in Nat : \A st \in Statuses :
            [q EXCEPT !.st = "open", !.size = n, !.filled = k, !.entry = st] \in RowRec
      BY DEF RowRec
    <3>4. \A q \in RowRec : \A n, k \in Nat : \A st \in Statuses :
            [q EXCEPT !.st = "open", !.size = n, !.filled = k, !.entry = st].size = n
      BY DEF RowRec
    <3>2. order.size \in Nat /\ order.filled \in Nat /\ order.st \in Statuses
      BY <2>1 DEF OrderRec
    <3> DEFINE n == order.size
               k == order.filled
               st == order.st
    <3>5. row = [NoRow EXCEPT !.st = "open", !.size = n, !.filled = k, !.entry = st]
      OBVIOUS
    <3>6. n \in Nat /\ k \in Nat /\ st \in Statuses
      BY <3>2
    <3> HIDE DEF n, k, st, row
    <3>7. row \in RowRec
      BY <3>1, <3>3, <3>5, <3>6
    <3>8. row.size = n
      BY <3>1, <3>4, <3>5, <3>6
    <3> QED
      BY <3>6, <3>7, <3>8
  <2>4. r \in RowRec
    <3> HIDE DEF row
    <3>1. ChargeEntry(row, row.size) \in RowRec
      BY <2>3, RowsTyped
    <3> QED
      BY <2>3, <3>1
  <2> HIDE DEF r, row
  <2>5. rows' \in [Orders -> RowRec] /\ positions' \subseteq Orders
    BY <1>1, <2>1, <2>2, <2>4 DEF OpenRows
  <2>6. order.size \in Nat
    BY <2>1 DEF OrderRec
  <2>7. bankroll' \in Nat /\ bankroll' <= bankroll
    <3> HIDE DEF order
    <3> QED
      BY <1>1, <2>2, <2>6 DEF LargerOf
  <2> QED
    BY <1>1, <1>3, <1>31, <2>5, <2>7 DEF Record
<1> QED
  BY <1>6, <1>7, <1>8, <1>9, <1>10, <1>11, <1>12, <1>13, <1>14, <1>15, <1>16, <1>17, <1>18, <1>19,
     <1>20, <1>21, <1>22, <1>23, <1>24, <1>25, <1>26, <1>27, <1>28, <1>29, <1>30, <1>31
  DEF Next, RunCycle, Process, Lifecycle, Trade
-----------------------------------------------------------------------------
(* The events of a pass.                                                   *)

EventSeq == Seq(Orders \X {"entry", "exit"})

\* Taking the first event off the list leaves the others, in order; an exit that is taken off
\* leaves no event of its order.
LEMMA TailIs ==
  ASSUME NEW q \in EventSeq, q # <<>>, Ordered(q)
  PROVE  /\ \A o, kind : Listed(Tail(q), o, kind) <=> Listed(q, o, kind) /\ <<o, kind>> # q[1]
         /\ Listed(q, q[1][1], q[1][2])
         /\ q[1][2] = "exit" => ~ Listed(q, q[1][1], "entry")
         /\ Ordered(Tail(q))
<1>1. /\ Tail(q) \in EventSeq /\ Len(q) \in Nat /\ Len(q) > 0 /\ Len(Tail(q)) = Len(q) - 1
      /\ DOMAIN q = 1..Len(q) /\ DOMAIN Tail(q) = 1..(Len(q) - 1)
      /\ \A i \in 1..(Len(q) - 1) : Tail(q)[i] = q[i + 1]
  BY DEF EventSeq
<1>2. \A i \in 1..Len(q) : /\ q[i] \in Orders \X {"entry", "exit"} /\ q[i][1] \in Int
                           /\ q[i] = <<q[i][1], q[i][2]>>
  BY DEF EventSeq, Orders
<1>3. 1 \in 1..Len(q)
  BY <1>1
<1>4. ASSUME NEW i \in 1..Len(q), 1 < i PROVE Before(q[1], q[i]) /\ q[i] # q[1]
  <2>1. Before(q[1], q[i])
    BY <1>1, <1>3, <1>4 DEF Ordered
  <2>2. ~ Before(q[1], q[1])
    BY <1>2, <1>3 DEF Before
  <2> QED
    BY <2>1, <2>2
<1>5. ASSUME NEW o, NEW kind, Listed(Tail(q), o, kind) PROVE Listed(q, o, kind) /\ <<o, kind>> # q[1]
  <2>1. PICK i \in 1..(Len(q) - 1) : Tail(q)[i] = <<o, kind>>
    BY <1>1, <1>5 DEF Listed
  <2>2. i + 1 \in 1..Len(q) /\ 1 < i + 1 /\ q[i + 1] = <<o, kind>>
    BY <1>1, <2>1
  <2>3. q[i + 1] # q[1]
    BY <1>4, <2>2
  <2> QED
    BY <1>1, <2>2, <2>3 DEF Listed
<1>6. ASSUME NEW o, NEW kind, Listed(q, o, kind), <<o, kind>> # q[1] PROVE Listed(Tail(q), o, kind)
  <2>1. PICK i \in 1..Len(q) : q[i] = <<o, kind>>
    BY <1>1, <1>6 DEF Listed
  <2>2. i # 1
    BY <1>6, <2>1
  <2>3. i - 1 \in 1..(Len(q) - 1) /\ (i - 1) + 1 = i
    BY <1>1, <2>1, <2>2
  <2>4. Tail(q)[i - 1] = <<o, kind>>
    BY <1>1, <2>1, <2>3
  <2> QED
    BY <1>1, <2>3, <2>4 DEF Listed
<1>7. Ordered(Tail(q))
  <2> SUFFICES ASSUME NEW i \in 1..(Len(q) - 1), NEW j \in 1..(Len(q) - 1), i < j
               PROVE  Before(Tail(q)[i], Tail(q)[j])
    BY <1>1 DEF Ordered
  <2>1. i + 1 \in 1..Len(q) /\ j + 1 \in 1..Len(q) /\ i + 1 < j + 1
    BY <1>1
  <2>2. Before(q[i + 1], q[j + 1])
    BY <1>1, <2>1 DEF Ordered
  <2> QED
    BY <1>1, <2>2
<1>8. Listed(q, q[1][1], q[1][2])
  BY <1>1, <1>2, <1>3 DEF Listed
<1>9. ASSUME q[1][2] = "exit", Listed(q, q[1][1], "entry") PROVE FALSE
  <2>1. PICK i \in 1..Len(q) : q[i] = <<q[1][1], "entry">>
    BY <1>1, <1>9 DEF Listed
  <2>2. i # 1 /\ q[i][1] = q[1][1] /\ q[i][2] = "entry"
    BY <1>9, <2>1
  <2>3. 1 < i
    BY <2>2
  <2>4. Before(q[1], q[i])
    BY <1>4, <2>3
  <2>5. ~ (q[1][1] < q[i][1])
    BY <1>2, <1>3, <2>2
  <2> QED
    BY <2>2, <2>4, <2>5 DEF Before
<1> QED
  BY <1>5, <1>6, <1>7, <1>8, <1>9

\* An event that comes after those of the list joins it, in order.
LEMMA AppendIs ==
  ASSUME NEW q \in EventSeq, Ordered(q), NEW a \in Orders, NEW k \in {"entry", "exit"},
         \A i \in DOMAIN q : Before(q[i], <<a, k>>)
  PROVE  /\ q \o <<<<a, k>>>> \in EventSeq
         /\ \A o, kind : Listed(q \o <<<<a, k>>>>, o, kind) <=> Listed(q, o, kind) \/ (o = a /\ kind = k)
         /\ Ordered(q \o <<<<a, k>>>>)
         /\ \A i \in DOMAIN (q \o <<<<a, k>>>>) :
              (q \o <<<<a, k>>>>)[i] = <<a, k>> \/ \E j \in DOMAIN q : (q \o <<<<a, k>>>>)[i] = q[j]
<1> DEFINE r == q \o <<<<a, k>>>>
           n == Len(q)
<1>1. /\ n \in Nat /\ DOMAIN q = 1..n /\ DOMAIN r = 1..(n + 1)
      /\ \A i \in 1..n : r[i] = q[i]
      /\ r[n + 1] = <<a, k>> /\ r \in EventSeq
  BY DEF EventSeq
<1> HIDE DEF r, n
<1>3. \A i \in 1..(n + 1) : i \in 1..n \/ i = n + 1
  BY <1>1
<1>4. n + 1 \in 1..(n + 1) /\ \A i \in 1..n : i \in 1..(n + 1)
  BY <1>1
<1>5. ASSUME NEW o, NEW kind PROVE Listed(r, o, kind) <=> Listed(q, o, kind) \/ (o = a /\ kind = k)
  BY <1>1, <1>3, <1>4 DEF Listed
<1>6. Ordered(r)
  <2> SUFFICES ASSUME NEW i \in 1..(n + 1), NEW j \in 1..(n + 1), i < j PROVE Before(r[i], r[j])
    BY <1>1 DEF Ordered
  <2>1. i \in 1..n
    BY <1>1
  <2>2. CASE j \in 1..n
    BY <1>1, <2>1, <2>2 DEF Ordered
  <2>3. CASE j = n + 1
    BY <1>1, <2>1, <2>3
  <2> QED
    BY <1>3, <2>2, <2>3
<1>7. \A i \in DOMAIN r : r[i] = <<a, k>> \/ \E j \in DOMAIN q : r[i] = q[j]
  BY <1>1, <1>3
<1> QED
  BY <1>1, <1>5, <1>6, <1>7 DEF r

\* Two elements appended at once are two elements appended in turn.
LEMMA AppendTwo ==
  ASSUME NEW S, NEW q \in Seq(S), NEW x \in S, NEW y \in S
  PROVE  q \o <<x, y>> = (q \o <<x>>) \o <<y>>
<1> DEFINE r == (q \o <<x>>) \o <<y>>
           s == q \o <<x, y>>
<1>1. <<x>> \in Seq(S) /\ <<y>> \in Seq(S) /\ <<x, y>> \in Seq(S) /\ Len(<<x, y>>) = 2
  OBVIOUS
<1>2. (q \o <<x>>) \in Seq(S) /\ Len(q \o <<x>>) = Len(q) + 1
  BY <1>1
<1>3. r \in Seq(S) /\ s \in Seq(S) /\ Len(r) = Len(q) + 2 /\ Len(s) = Len(q) + 2
  BY <1>1, <1>2
<1>4. \A i \in 1..(Len(q) + 2) : r[i] = s[i]
  BY <1>1, <1>2
<1> HIDE DEF r, s
<1>5. r = s
  BY <1>3, <1>4
<1> QED
  BY <1>5 DEF r, s

\* The events of a visit join those of the orders visited before.
LEMMA VisitAppends ==
  ASSUME NEW q \in EventSeq, Ordered(q), NEW a \in Orders, NEW evs \in VisitEvents(a),
         \A i \in DOMAIN q : q[i][1] < a
  PROVE  /\ \A o, kind : Listed(q \o evs, o, kind) <=>
              Listed(q, o, kind) \/ (o = a /\ \E i \in DOMAIN evs : evs[i] = <<a, kind>>)
         /\ Ordered(q \o evs)
         /\ \A i \in DOMAIN (q \o evs) : (q \o evs)[i][1] <= a
<1>1. a \in Int /\ \A i \in DOMAIN q : q[i][1] \in Int
  BY DEF EventSeq, Orders
<1>2. ASSUME evs = <<>> PROVE q \o evs = q /\ DOMAIN evs = {}
  BY <1>2 DEF EventSeq
<1>3. ASSUME NEW k \in {"entry", "exit"}
      PROVE  /\ q \o <<<<a, k>>>> \in EventSeq
             /\ \A o, kind : Listed(q \o <<<<a, k>>>>, o, kind) <=> Listed(q, o, kind) \/ (o = a /\ kind = k)
             /\ Ordered(q \o <<<<a, k>>>>)
             /\ \A i \in DOMAIN (q \o <<<<a, k>>>>) :
                  (q \o <<<<a, k>>>>)[i] = <<a, k>> \/ \E j \in DOMAIN q : (q \o <<<<a, k>>>>)[i] = q[j]
  <2>1. \A i \in DOMAIN q : Before(q[i], <<a, k>>)
    BY DEF Before
  <2> QED
    BY <2>1, AppendIs
<1>4. ASSUME NEW k \in {"entry", "exit"}, evs = <<<<a, k>>>>
      PROVE  \A o, kind : (o = a /\ kind = k) <=> (o = a /\ \E i \in DOMAIN evs : evs[i] = <<a, kind>>)
  BY <1>4
<1>5. CASE evs = <<>>
  BY <1>1, <1>2, <1>5
<1>6. ASSUME NEW k \in {"entry", "exit"}, evs = <<<<a, k>>>>
      PROVE  /\ \A o, kind : Listed(q \o evs, o, kind) <=>
                  Listed(q, o, kind) \/ (o = a /\ \E i \in DOMAIN evs : evs[i] = <<a, kind>>)
             /\ Ordered(q \o evs)
             /\ \A i \in DOMAIN (q \o evs) : (q \o evs)[i][1] <= a
  <2>1. \A i \in DOMAIN (q \o evs) : (q \o evs)[i][1] <= a
    <3> SUFFICES ASSUME NEW i \in DOMAIN (q \o evs) PROVE (q \o evs)[i][1] <= a
      OBVIOUS
    <3>1. (q \o evs)[i] = <<a, k>> \/ \E j \in DOMAIN q : (q \o evs)[i] = q[j]
      BY <1>3, <1>6
    <3> QED
      BY <1>1, <3>1
  <2> QED
    BY <1>3, <1>4, <1>6, <2>1
<1>7. CASE evs = <<<<a, "entry">>, <<a, "exit">>>>
  <2> DEFINE r == q \o <<<<a, "entry">>>>
  <2>1. q \o evs = r \o <<<<a, "exit">>>>
    <3> DEFINE x == <<a, "entry">>
               y == <<a, "exit">>
               T == Orders \X {"entry", "exit"}
    <3>1. x \in T /\ y \in T
      OBVIOUS
    <3>2. evs = <<x, y>> /\ r = q \o <<x>>
      BY <1>7
    <3>3. q \in Seq(T)
      BY DEF EventSeq
    <3> HIDE DEF x, y, r, T
    <3>4. q \o <<x, y>> = (q \o <<x>>) \o <<y>>
      BY <3>1, <3>3, AppendTwo
    <3> QED
      BY <3>2, <3>4 DEF y
  <2>2. /\ r \in EventSeq /\ Ordered(r)
        /\ \A o, kind : Listed(r, o, kind) <=> Listed(q, o, kind) \/ (o = a /\ kind = "entry")
        /\ \A i \in DOMAIN r : r[i] = <<a, "entry">> \/ \E j \in DOMAIN q : r[i] = q[j]
    BY <1>3
  <2> HIDE DEF r
  <2>3. \A i \in DOMAIN r : Before(r[i], <<a, "exit">>) /\ r[i][1] <= a /\ r[i][1] \in Int
    <3> SUFFICES ASSUME NEW i \in DOMAIN r
                 PROVE  Before(r[i], <<a, "exit">>) /\ r[i][1] <= a /\ r[i][1] \in Int
      OBVIOUS
    <3>1. CASE r[i] = <<a, "entry">>
      BY <1>1, <3>1 DEF Before
    <3>2. ASSUME NEW j \in DOMAIN q, r[i] = q[j]
          PROVE  Before(r[i], <<a, "exit">>) /\ r[i][1] <= a /\ r[i][1] \in Int
      BY <1>1, <3>2 DEF Before
    <3> QED
      BY <2>2, <3>1, <3>2
  <2>4. /\ \A o, kind : Listed(r \o <<<<a, "exit">>>>, o, kind) <=> Listed(r, o, kind) \/ (o = a /\ kind = "exit")
        /\ Ordered(r \o <<<<a, "exit">>>>)
        /\ \A i \in DOMAIN (r \o <<<<a, "exit">>>>) :
             (r \o <<<<a, "exit">>>>)[i] = <<a, "exit">> \/ \E j \in DOMAIN r : (r \o <<<<a, "exit">>>>)[i] = r[j]
    BY <2>2, <2>3, AppendIs
  <2>5. \A i \in DOMAIN (q \o evs) : (q \o evs)[i][1] <= a
    <3> SUFFICES ASSUME NEW i \in DOMAIN (q \o evs) PROVE (q \o evs)[i][1] <= a
      OBVIOUS
    <3>1. (q \o evs)[i] = <<a, "exit">> \/ \E j \in DOMAIN r : (q \o evs)[i] = r[j]
      BY <2>1, <2>4
    <3> QED
      BY <1>1, <2>3, <3>1
  <2>6. \A o, kind : (o = a /\ kind \in {"entry", "exit"}) <=>
                     (o = a /\ \E i \in DOMAIN evs : evs[i] = <<a, kind>>)
    <3>1. DOMAIN evs = {1, 2} /\ evs[1] = <<a, "entry">> /\ evs[2] = <<a, "exit">>
      BY <1>7
    <3> QED
      BY <3>1
  <2>7. \A o, kind : Listed(q \o evs, o, kind) <=>
          Listed(q, o, kind) \/ (o = a /\ kind \in {"entry", "exit"})
    <3>1. \A o, kind : Listed(q \o evs, o, kind) <=> Listed(r, o, kind) \/ (o = a /\ kind = "exit")
      BY <2>1, <2>4
    <3> QED
      BY <2>2, <3>1
  <2>8. Ordered(q \o evs)
    BY <2>1, <2>4
  <2> QED
    BY <2>5, <2>6, <2>7, <2>8
<1> QED
  BY <1>5, <1>6, <1>7 DEF VisitEvents

\* Each step leaves the events of a pass in order, and none outside of it.
LEMMA QueueStep == Types /\ Queue /\ [Next]_vars => Queue'
<1> SUFFICES ASSUME Types, Queue, [Next]_vars PROVE Queue'
  OBVIOUS
<1>1. events \in EventSeq /\ turn \in Nat
  BY DEF Types, TypeOK, EventSeq
<1>2. \A i \in DOMAIN <<>> : FALSE
  OBVIOUS
<1>3. ASSUME events' = <<>>, pc' \notin {"reconcile", "close"} PROVE Queue'
  BY <1>2, <1>3 DEF Queue, Ordered
<1>4. ASSUME UNCHANGED <<events, pc, turn>> PROVE Queue'
  BY <1>4 DEF Queue, Ordered
<1> USE DEF At, Running, DbOpen, local, money, outside
<1>5. CASE UNCHANGED vars \/ SkipCycle
  BY <1>4, <1>5 DEF vars, SkipCycle
<1>6. CASE Pause \/ Restart \/ ShutdownCloseTracker \/ FlipSwitch \/ Midnight \/ ShutdownCancel
  BY <1>4, <1>6 DEF Pause, Restart, ShutdownCloseTracker, FlipSwitch, Midnight, ShutdownCancel
<1>7. CASE StartCycle \/ EnterSizing \/ PlaceOrder \/ Record \/ PlacingDone \/ Account \/ Expire \/ Audit
  BY <1>3, <1>7 DEF StartCycle, EnterSizing, PlaceOrder, Record, PlacingDone, Account, Expire, Audit, Queue
<1>8. CASE EmergencyCancel \/ EmergencyHalt \/ Fail \/ Exit \/ Crash
  BY <1>3, <1>8 DEF EmergencyCancel, EmergencyHalt, Fail, Exit, Crash, Forget, LocalsEnd, Queue
<1>9. CASE Scanned
  <2>1. events' = <<>> /\ pc' = "reconcile"
    BY <1>9 DEF Scanned, Queue
  <2> QED
    BY <1>2, <2>1 DEF Queue, Ordered
<1>10. CASE Reconciled \/ Applied
  BY <1>10 DEF Reconciled, Applied, Queue, Ordered
<1>11. CASE \E o \in Orders : EntryFills(o) \/ VenueCancels(o) \/ LegTriggers(o) \/ LegExpires(o)
  <2>1. PICK o \in Orders : EntryFills(o) \/ VenueCancels(o) \/ LegTriggers(o) \/ LegExpires(o)
    BY <1>11
  <2>2. PICK evs \in VisitEvents(o) : \E order : Visit(o, order, evs)
    <3>1. EntryFills(o) => \E evs \in VisitEvents(o) : \E order : Visit(o, order, evs)
      BY DEF EntryFills, VisitEvents
    <3>2. VenueCancels(o) => \E order : Visit(o, order, <<<<o, "entry">>>>)
      BY DEF VenueCancels
    <3>3. LegTriggers(o) => \E order : Visit(o, order, <<<<o, "exit">>>>)
      BY DEF LegTriggers
    <3>4. LegExpires(o) => \E order : Visit(o, order, <<>>)
      BY DEF LegExpires
    <3> QED
      BY <2>1, <3>1, <3>2, <3>3, <3>4 DEF VisitEvents
  <2>3. pc = "reconcile" /\ pc' = "reconcile" /\ o > turn /\ turn' = o /\ events' = events \o evs /\ o \in Int
    BY <2>2 DEF Visit, Orders
  <2>4. \A i \in DOMAIN events : events[i][1] < o
    <3>1. \A i \in DOMAIN events : events[i][1] <= turn /\ events[i][1] \in Int
      BY <1>1, <2>3 DEF Queue, EventSeq, Orders
    <3> QED
      BY <1>1, <2>3, <3>1
  <2>5. Ordered(events)
    BY DEF Queue
  <2> DEFINE q == events
  <2>6. q \in EventSeq /\ Ordered(q) /\ \A i \in DOMAIN q : q[i][1] < o
    BY <1>1, <2>4, <2>5
  <2> HIDE DEF q
  <2>7. Ordered(q \o evs) /\ \A i \in DOMAIN (q \o evs) : (q \o evs)[i][1] <= o
    BY <2>6, VisitAppends
  <2> QED
    BY <2>3, <2>7 DEF Queue, Ordered, q
<1>12. CASE ApplyEntry \/ ApplyClose \/ CloseRollsBack
  <2>1. events # <<>> /\ events' = Tail(events) /\ pc' = "apply"
    BY <1>12 DEF ApplyEntry, ApplyClose, CloseRollsBack, Queue
  <2>2. Ordered(Tail(events))
    BY <1>1, <2>1, TailIs DEF Queue
  <2> QED
    BY <2>1, <2>2 DEF Queue, Ordered
<1>13. CASE ApplyExitFee
  BY <1>1, <1>13 DEF ApplyExitFee, Queue, Ordered, EventSeq
<1> QED
  BY <1>5, <1>6, <1>7, <1>8, <1>9, <1>10, <1>11, <1>12, <1>13
  DEF Next, RunCycle, Process, Lifecycle, Trade

\* The list of positions is the table's while orders are placed, and the order being
\* recorded has no row yet.
LEMMA PlacingStep ==
  Types /\ Placing /\ (\A o \in Orders : Books(o)) /\ [Next]_vars => Placing'
<1> SUFFICES ASSUME Types, Placing, \A o \in Orders : Books(o), [Next]_vars PROVE Placing'
  OBVIOUS
<1>1. used \in 0..NOrders /\ NOrders \in Nat /\ rows \in [Orders -> RowRec]
  BY CycleAssumption DEF Types, TypeOK
<1>2. ASSUME pc' \notin {"place", "record"} PROVE Placing'
  BY <1>2 DEF Placing
<1>3. ASSUME UNCHANGED <<used, rows, pc, positions>> PROVE Placing'
  BY <1>3 DEF Placing, OpenRows
<1> USE DEF At, Running, DbOpen, local, money, outside
<1>4. CASE UNCHANGED vars \/ SkipCycle \/ Pause \/ Restart
  BY <1>3, <1>4 DEF vars, SkipCycle, Pause, Restart
<1>5. CASE ShutdownCloseTracker \/ FlipSwitch \/ Midnight \/ ShutdownCancel
  BY <1>3, <1>5 DEF ShutdownCloseTracker, FlipSwitch, Midnight, ShutdownCancel
<1>6. CASE StartCycle \/ PlacingDone \/ Account \/ Expire \/ Audit \/ EmergencyCancel \/ EmergencyHalt \/ Fail
  BY <1>2, <1>6 DEF StartCycle, PlacingDone, Account, Expire, Audit, EmergencyCancel, EmergencyHalt, Fail
<1>7. CASE Exit \/ Crash \/ Scanned \/ Reconciled \/ Applied \/ ApplyExitFee
  BY <1>2, <1>7 DEF Exit, Crash, Forget, Scanned, Reconciled, Applied, ApplyExitFee
<1>8. CASE ApplyEntry \/ ApplyClose \/ CloseRollsBack
  BY <1>2, <1>8 DEF ApplyEntry, ApplyClose, CloseRollsBack
<1>9. CASE \E o \in Orders : EntryFills(o) \/ VenueCancels(o) \/ LegTriggers(o) \/ LegExpires(o)
  BY <1>2, <1>9 DEF EntryFills, VenueCancels, LegTriggers, LegExpires, Visit
<1>10. CASE EnterSizing
  BY <1>10 DEF EnterSizing, Placing, OpenRows
<1>11. CASE PlaceOrder
  <2>1. /\ pc = "place" /\ used < NOrders /\ used' = used + 1 /\ pc' = "record"
        /\ UNCHANGED <<rows, positions>>
    BY <1>11 DEF PlaceOrder
  <2>2. used' \in Orders /\ used' > used
    BY <1>1, <2>1 DEF Orders
  <2>3. rows[used'] = NoRow
    BY <2>2 DEF Books
  <2> QED
    BY <2>1, <2>2, <2>3 DEF Placing, OpenRows
<1>12. CASE Record
  <2> DEFINE order == orders[used]
             row == [NoRow EXCEPT !.st = "open", !.size = order.size,
                       !.filled = order.filled, !.entry = order.st]
             r == IF order.paper \/ order.st = "filled" THEN ChargeEntry(row, row.size) ELSE row
  <2>1. rows' = [rows EXCEPT ![used] = r] /\ positions' = OpenRows \cup {used} /\ pc' = "place" /\ used \in Orders
    BY <1>12 DEF Record, Placing
  <2>2. r.st = "open"
    BY DEF ChargeEntry, NoRow
  <2> HIDE DEF r
  <2>3. OpenRows' = OpenRows \cup {used}
    BY <1>1, <2>1, <2>2 DEF OpenRows
  <2> QED
    BY <2>1, <2>3 DEF Placing
<1> QED
  BY <1>4, <1>5, <1>6, <1>7, <1>8, <1>9, <1>10, <1>11, <1>12 DEF Next, RunCycle, Process, Lifecycle, Trade
-----------------------------------------------------------------------------
(* One order in the executor, the table and between them.                  *)

\* What a charge counts.
LEMMA Charged ==
  ASSUME NEW r \in RowRec
  PROVE  /\ \A amount : /\ ChargeEntry(r, amount).entryFees = r.entryFees + 1
                        /\ ChargeEntry(r, amount).exitFees = r.exitFees
                        /\ ChargeEntry(r, amount).st = r.st
                        /\ ChargeEntry(r, amount).pnl = r.pnl
                        /\ ChargeEntry(r, amount).size = r.size
                        /\ ChargeEntry(r, amount).filled = r.filled
                        /\ ChargeEntry(r, amount).fee = r.fee + FeeOn(amount)
         /\ ChargeExit(r).exitFees = r.exitFees + 1 /\ ChargeExit(r).entryFees = r.entryFees
         /\ ChargeExit(r).st = r.st /\ ChargeExit(r).pnl = r.pnl /\ ChargeExit(r).size = r.size
         /\ ChargeExit(r).filled = r.filled /\ ChargeExit(r).fee = r.fee + FeeOn(Traded(r))
BY DEF ChargeEntry, ChargeExit, RowRec

\* A closed row keeps what was charged and its size.
LEMMA ClosedIs ==
  ASSUME NEW r \in RowRec, NEW pct \in Int
  PROVE  /\ Closed(r, pct).st = "closed" /\ Closed(r, pct).size = r.size
         /\ Closed(r, pct).entryFees = r.entryFees /\ Closed(r, pct).exitFees = r.exitFees
         /\ Closed(r, pct).filled = r.filled /\ Closed(r, pct).fee = r.fee
<1> DEFINE n == Closed(r, pct).pnl
<1>1. Closed(r, pct) = [r EXCEPT !.st = "closed", !.pnl = n]
  BY RowsTyped
<1> HIDE DEF n
<1> QED
  BY <1>1 DEF RowRec

\* The row an order starts with: open, its size the order's; charged at once in paper mode
\* and when it is already filled (record_trade and the fee after it).
LEMMA RecordedIs ==
  ASSUME Types, Placing, Record
  PROVE  /\ used \in Orders /\ rows[used] = NoRow /\ UNCHANGED <<orders, used, events, history>>
         /\ \A o \in Orders \ {used} : rows'[o] = rows[o]
         /\ rows'[used].st = "open" /\ rows'[used].size = orders[used].size
         /\ rows'[used].exitFees = 0 /\ rows'[used].pnl = 0
         /\ rows'[used].filled = orders[used].filled
         /\ \/ rows'[used].entryFees = 0 /\ rows'[used].fee = 0
            \/ /\ rows'[used].entryFees = 1 /\ rows'[used].fee = FeeOn(orders[used].size)
               /\ orders[used].paper \/ orders[used].st = "filled"
<1> DEFINE order == orders[used]
           row == [NoRow EXCEPT !.st = "open", !.size = order.size,
                     !.filled = order.filled, !.entry = order.st]
           r == IF order.paper \/ order.st = "filled" THEN ChargeEntry(row, row.size) ELSE row
<1>1. rows' = [rows EXCEPT ![used] = r] /\ UNCHANGED <<orders, used, events, history>>
  BY DEF Record, outside
<1>2. used \in Orders /\ rows[used] = NoRow /\ rows \in [Orders -> RowRec] /\ order \in OrderRec
  BY DEF Record, At, Placing, Types, TypeOK
<1>3. row.st = "open" /\ row.size = order.size /\ row.entryFees = 0 /\ row.exitFees = 0 /\ row.pnl = 0
      /\ row.fee = 0 /\ row.filled = order.filled
  BY DEF NoRow
<1>4. NoRow \in RowRec
  BY DEF NoRow, RowRec, Statuses
<1>5. row \in RowRec
  <2>1. \A q \in RowRec : \A n, k \in Nat : \A st \in Statuses :
          [q EXCEPT !.st = "open", !.size = n, !.filled = k, !.entry = st] \in RowRec
    BY DEF RowRec
  <2> DEFINE n == order.size
             k == order.filled
             st == order.st
  <2>2. row = [NoRow EXCEPT !.st = "open", !.size = n, !.filled = k, !.entry = st]
    OBVIOUS
  <2>3. n \in Nat /\ k \in Nat /\ st \in Statuses
    BY <1>2 DEF OrderRec
  <2> HIDE DEF n, k, st, row
  <2> QED
    BY <1>4, <2>1, <2>2, <2>3
<1> HIDE DEF row
<1>6. /\ r.st = "open" /\ r.size = order.size /\ r.exitFees = 0 /\ r.pnl = 0
      /\ r.filled = order.filled
      /\ \/ r.entryFees = 0 /\ r.fee = 0
         \/ r.entryFees = 1 /\ r.fee = FeeOn(order.size) /\ (order.paper \/ order.st = "filled")
  <2>1. FeeOn(order.size) \in Nat
    BY <1>2, FeeTyped DEF OrderRec
  <2> QED
    BY <1>3, <1>5, <2>1, Charged
<1> HIDE DEF r
<1>7. rows'[used] = r /\ \A o \in Orders \ {used} : rows'[o] = rows[o]
  BY <1>1, <1>2
<1> HIDE DEF order
<1> QED
  BY <1>1, <1>2, <1>6, <1>7 DEF order

\* The order placed, filled at once or not; the others stay.
LEMMA PlacedIs ==
  ASSUME Types, PlaceOrder
  PROVE  LET o == used + 1 IN
         /\ o \in Orders /\ used' = o /\ UNCHANGED <<rows, events, history, bankroll>>
         /\ \A p \in Orders \ {o} : orders'[p] = orders[p]
         /\ orders'[o].st \in {"placed", "filled"} /\ orders'[o].leg \in {"none", "armed"}
         /\ orders'[o].size \in Nat /\ orders'[o].size > 0 /\ mult > 0
         /\ 100 * (orders'[o].size + Capital(positions)) <= MaxPortfolioPct * bankroll
         /\ 10000 * orders'[o].size <= (bankroll * MaxPositionPct) * mult
         /\ orders'[o].filled \in {0, orders'[o].size}
<1> DEFINE o == used + 1
<1>1. o \in Orders
  <2>1. used \in 0..NOrders /\ used < NOrders /\ NOrders \in Nat
    BY CycleAssumption DEF PlaceOrder, Types, TypeOK
  <2> QED
    BY <2>1 DEF Orders
<1>2. PICK want \in Wants :
        /\ PositionSize(o, want) > 0
        /\ LET placed == [NoOrder EXCEPT !.st = "placed", !.size = PositionSize(o, want), !.paper = mode.executor] IN
           orders' = [orders EXCEPT ![o] =
            IF placed.paper /\ FillOnPlace
            THEN [placed EXCEPT !.st = "filled", !.filled = PositionSize(o, want), !.leg = "armed"]
            ELSE placed]
  BY DEF PlaceOrder
<1> DEFINE size == PositionSize(o, want)
           placed == [NoOrder EXCEPT !.st = "placed", !.size = size, !.paper = mode.executor]
           filled == [placed EXCEPT !.st = "filled", !.filled = size, !.leg = "armed"]
<1>3. used' = o /\ UNCHANGED <<rows, events, history, bankroll>>
  BY DEF PlaceOrder, money
<1>4. orders \in [Orders -> OrderRec] /\ bankroll \in Nat /\ mult \in 0..100 /\ positions \subseteq Orders
      /\ rows \in [Orders -> RowRec]
  BY DEF Types, TypeOK
<1> HIDE DEF o
<1>5. /\ size \in Nat /\ size > 0 /\ mult > 0
      /\ 100 * (size + Capital(positions)) <= MaxPortfolioPct * bankroll
      /\ 10000 * size <= (bankroll * MaxPositionPct) * mult
  BY <1>1, <1>2, <1>4, SizeFits
<1>6. orders' = [orders EXCEPT ![o] = IF placed.paper /\ FillOnPlace THEN filled ELSE placed]
  BY <1>2
<1> HIDE DEF size
<1>7. /\ placed.st = "placed" /\ placed.leg = "none" /\ placed.size = size
      /\ filled.st = "filled" /\ filled.leg = "armed" /\ filled.size = size
      /\ placed.filled = 0 /\ filled.filled = size
  BY DEF NoOrder
<1> HIDE DEF placed, filled
<1>8. orders'[o] \in {placed, filled} /\ \A p \in Orders \ {o} : orders'[p] = orders[p]
  BY <1>1, <1>4, <1>6
<1>9. /\ orders'[o].st \in {"placed", "filled"} /\ orders'[o].leg \in {"none", "armed"}
      /\ orders'[o].size = size /\ orders'[o].filled \in {0, size}
  BY <1>7, <1>8
<1> QED
  BY <1>1, <1>3, <1>5, <1>8, <1>9 DEF o
\* What waits after the first event was applied: the same, but for that event.
LEMMA Consumed ==
  ASSUME Types, Queue, events # <<>>, events' = Tail(events)
  PROVE  /\ events[1] \in Orders \X {"entry", "exit"} /\ Head(events) = events[1]
         /\ \A o, kind : Waiting(o, kind)' <=> Waiting(o, kind) /\ <<o, kind>> # events[1]
         /\ Waiting(events[1][1], events[1][2])
         /\ events[1][2] = "exit" => ~ Waiting(events[1][1], "entry")
<1>1. events \in EventSeq /\ Ordered(events)
  BY DEF Types, EventSeq, Queue
<1>2. events[1] \in Orders \X {"entry", "exit"} /\ Head(events) = events[1]
  BY <1>1 DEF EventSeq
<1>3. \A o, kind : Waiting(o, kind)' <=> Listed(Tail(events), o, kind)
  BY DEF Waiting, Listed
<1> QED
  BY <1>1, <1>2, <1>3, TailIs DEF Waiting

\* What the executor's pass does to one order, and the event it leaves.
LEMMA VisitedIs ==
  ASSUME Types, Queue, NEW p \in Orders,
         EntryFills(p) \/ VenueCancels(p) \/ LegTriggers(p) \/ LegExpires(p)
  PROVE  /\ UNCHANGED <<rows, used, pc, history>> /\ pc = "reconcile"
         /\ \A o \in Orders \ {p} : orders'[o] = orders[o]
         /\ orders[p].st # "none" \/ orders[p].leg = "armed"
         /\ orders'[p].st = "none" => orders[p].st = "none"
         /\ orders'[p].size = orders[p].size /\ orders'[p].paper = orders[p].paper
         /\ orders[p].filled <= orders[p].size => orders'[p].filled <= orders'[p].size
         /\ orders'[p].st \in OpenEntry => orders[p].st \in OpenEntry
         /\ \/ /\ orders[p].st \in OpenEntry /\ ((orders'[p].leg = "sold") <=> (orders[p].leg = "sold"))
               /\ \A o, kind : Waiting(o, kind)' <=> Waiting(o, kind) \/ (o = p /\ kind = "entry")
            \/ /\ orders[p].st \in OpenEntry /\ orders[p].leg = "armed" /\ orders'[p].leg = "sold"
               /\ \A o, kind : Waiting(o, kind)' <=>
                    Waiting(o, kind) \/ (o = p /\ kind \in {"entry", "exit"})
            \/ /\ orders[p].leg = "armed" /\ orders'[p].leg = "sold"
               /\ \A o, kind : Waiting(o, kind)' <=> Waiting(o, kind) \/ (o = p /\ kind = "exit")
            \/ /\ orders[p].leg = "armed" /\ orders'[p].leg = "gone"
               /\ \A o, kind : Waiting(o, kind)' <=> Waiting(o, kind)
<1>1. /\ events \in EventSeq /\ Ordered(events) /\ turn \in Nat /\ p \in Int
      /\ orders \in [Orders -> OrderRec]
      /\ pc = "reconcile" => \A i \in DOMAIN events : events[i][1] <= turn /\ events[i][1] \in Int
  BY DEF Types, TypeOK, EventSeq, Queue, Orders
<1>2. ASSUME NEW order, NEW evs \in VisitEvents(p), Visit(p, order, evs)
      PROVE  /\ UNCHANGED <<rows, used, pc, history>> /\ pc = "reconcile"
             /\ orders'[p] = order /\ \A o \in Orders \ {p} : orders'[o] = orders[o]
             /\ \A o, kind : Waiting(o, kind)' <=>
                  Waiting(o, kind) \/ (o = p /\ \E i \in DOMAIN evs : evs[i] = <<p, kind>>)
  <2>1. /\ UNCHANGED <<rows, used, pc, history>> /\ pc = "reconcile" /\ p > turn
        /\ orders' = [orders EXCEPT ![p] = order] /\ events' = events \o evs
    BY <1>2 DEF Visit, At
  <2>2. \A i \in DOMAIN events : events[i][1] < p
    BY <1>1, <2>1
  <2> DEFINE q == events
  <2>3. q \in EventSeq /\ Ordered(q) /\ \A i \in DOMAIN q : q[i][1] < p
    BY <1>1, <2>2
  <2>4. \A o, kind : /\ Waiting(o, kind)' <=> Listed(q \o evs, o, kind)
                     /\ Waiting(o, kind) <=> Listed(q, o, kind)
    BY <2>1 DEF Waiting, Listed
  <2> HIDE DEF q
  <2>5. \A o, kind : Listed(q \o evs, o, kind) <=>
          Listed(q, o, kind) \/ (o = p /\ \E i \in DOMAIN evs : evs[i] = <<p, kind>>)
    BY <1>2, <2>3, VisitAppends
  <2>6. orders'[p] = order /\ \A o \in Orders \ {p} : orders'[o] = orders[o]
    BY <1>1, <2>1
  <2> QED
    BY <2>1, <2>4, <2>5, <2>6
<1>7. /\ \A k : <<<<p, k>>>>[1] = <<p, k>> /\ DOMAIN <<<<p, k>>>> = {1}
      /\ DOMAIN <<<<p, "entry">>, <<p, "exit">>>> = {1, 2} /\ DOMAIN <<>> = {}
      /\ {<<>>, <<<<p, "entry">>>>, <<<<p, "exit">>>>, <<<<p, "entry">>, <<p, "exit">>>>} = VisitEvents(p)
  BY DEF VisitEvents
<1>8. ASSUME NEW kind
      PROVE  /\ \A k : (\E i \in DOMAIN <<<<p, k>>>> : <<<<p, k>>>>[i] = <<p, kind>>) <=> kind = k
             /\ (\E i \in {1, 2} : <<<<p, "entry">>, <<p, "exit">>>>[i] = <<p, kind>>) <=> kind \in {"entry", "exit"}
  BY <1>7
<1>3. CASE EntryFills(p)
  <2>1. PICK amount \in {orders[p].size \div 2, orders[p].size - orders[p].filled},
             leg \in LegsAfterFill(orders[p].leg) :
          LET bought == orders[p].filled + amount
              sells == orders[p].leg = "armed" /\ leg = "sold" IN
          /\ bought <= orders[p].size
          /\ Visit(p, [orders[p] EXCEPT !.filled = bought, !.leg = leg,
                           !.st = IF bought = orders[p].size THEN "filled" ELSE "partially_filled"],
                   IF sells THEN <<<<p, "entry">>, <<p, "exit">>>> ELSE <<<<p, "entry">>>>)
    BY <1>3 DEF EntryFills
  <2> DEFINE bought == orders[p].filled + amount
  <2> DEFINE order == [orders[p] EXCEPT !.filled = bought, !.leg = leg,
                         !.st = IF bought = orders[p].size THEN "filled" ELSE "partially_filled"]
  <2>2. /\ order.st # "none" /\ order.size = orders[p].size /\ order.paper = orders[p].paper
        /\ order.filled = bought /\ order.leg = leg
    BY <1>1 DEF OrderRec
  <2>3. orders[p].st \in OpenEntry /\ orders[p].st # "none"
    BY <1>3 DEF EntryFills, OpenEntry
  <2>4. bought <= orders[p].size /\ leg \in LegsAfterFill(orders[p].leg)
    BY <2>1
  <2>5. CASE orders[p].leg = "armed" /\ leg = "sold"
    <3>1. Visit(p, order, <<<<p, "entry">>, <<p, "exit">>>>)
      BY <2>1, <2>5
    <3> HIDE DEF order
    <3>2. /\ UNCHANGED <<rows, used, pc, history>> /\ pc = "reconcile"
          /\ orders'[p] = order /\ \A o \in Orders \ {p} : orders'[o] = orders[o]
          /\ \A o, kind : Waiting(o, kind)' <=> Waiting(o, kind) \/ (o = p /\ kind \in {"entry", "exit"})
      BY <1>2, <1>7, <1>8, <3>1
    <3> QED
      BY <2>2, <2>3, <2>4, <2>5, <3>2
  <2>6. CASE ~ (orders[p].leg = "armed" /\ leg = "sold")
    <3>1. Visit(p, order, <<<<p, "entry">>>>)
      BY <2>1, <2>6
    <3>2. (leg = "sold") <=> (orders[p].leg = "sold")
      <4>1. orders[p].leg \in {"none", "armed", "sold", "gone"}
        BY <1>1 DEF OrderRec
      <4> QED
        BY <2>4, <2>6, <4>1 DEF LegsAfterFill
    <3> HIDE DEF order
    <3>3. /\ UNCHANGED <<rows, used, pc, history>> /\ pc = "reconcile"
          /\ orders'[p] = order /\ \A o \in Orders \ {p} : orders'[o] = orders[o]
          /\ \A o, kind : Waiting(o, kind)' <=> Waiting(o, kind) \/ (o = p /\ kind = "entry")
      BY <1>2, <1>7, <1>8, <3>1
    <3> QED
      BY <2>2, <2>3, <2>4, <3>2, <3>3
  <2> QED
    BY <2>5, <2>6
<1>4. CASE VenueCancels(p)
  <2> DEFINE order == [orders[p] EXCEPT !.st = "cancelled"]
  <2>1. /\ order.st = "cancelled" /\ order.size = orders[p].size /\ order.paper = orders[p].paper
        /\ order.leg = orders[p].leg /\ order.filled = orders[p].filled
    BY <1>1 DEF OrderRec
  <2>2. Visit(p, order, <<<<p, "entry">>>>) /\ orders[p].st \in OpenEntry /\ orders[p].st # "none"
    BY <1>4 DEF VenueCancels, OpenEntry
  <2> HIDE DEF order
  <2>3. /\ UNCHANGED <<rows, used, pc, history>> /\ pc = "reconcile"
        /\ orders'[p] = order /\ \A o \in Orders \ {p} : orders'[o] = orders[o]
        /\ \A o, kind : Waiting(o, kind)' <=> Waiting(o, kind) \/ (o = p /\ kind = "entry")
    BY <1>2, <1>7, <1>8, <2>2
  <2> QED
    BY <2>1, <2>2, <2>3
<1>5. CASE LegTriggers(p)
  <2> DEFINE order == [orders[p] EXCEPT !.leg = "sold"]
  <2>1. /\ order.st = orders[p].st /\ order.size = orders[p].size /\ order.paper = orders[p].paper
        /\ order.leg = "sold" /\ order.filled = orders[p].filled
    BY <1>1 DEF OrderRec
  <2>2. Visit(p, order, <<<<p, "exit">>>>) /\ orders[p].leg = "armed"
    BY <1>5 DEF LegTriggers
  <2> HIDE DEF order
  <2>3. /\ UNCHANGED <<rows, used, pc, history>> /\ pc = "reconcile"
        /\ orders'[p] = order /\ \A o \in Orders \ {p} : orders'[o] = orders[o]
        /\ \A o, kind : Waiting(o, kind)' <=> Waiting(o, kind) \/ (o = p /\ kind = "exit")
    BY <1>2, <1>7, <1>8, <2>2
  <2> QED
    BY <2>1, <2>2, <2>3
<1>6. CASE LegExpires(p)
  <2> DEFINE order == [orders[p] EXCEPT !.leg = "gone"]
  <2>1. /\ order.st = orders[p].st /\ order.size = orders[p].size /\ order.paper = orders[p].paper
        /\ order.leg = "gone" /\ order.filled = orders[p].filled
    BY <1>1 DEF OrderRec
  <2>2. Visit(p, order, <<>>) /\ orders[p].leg = "armed"
    BY <1>6 DEF LegExpires
  <2> HIDE DEF order
  <2>3. /\ UNCHANGED <<rows, used, pc, history>> /\ pc = "reconcile"
        /\ orders'[p] = order /\ \A o \in Orders \ {p} : orders'[o] = orders[o]
        /\ \A o, kind : Waiting(o, kind)' <=> Waiting(o, kind)
    BY <1>2, <1>7, <2>2
  <2> QED
    BY <2>1, <2>2, <2>3
<1> QED
  BY <1>3, <1>4, <1>5, <1>6

\* The three places that cancel open entries leave the rest of an order alone.
LEMMA CancelsAre ==
  ASSUME Types, EmergencyCancel \/ Expire \/ ShutdownCancel
  PROVE  \A o \in Orders :
           /\ orders'[o] = orders[o] \/
                (orders[o].st \in OpenEntry /\ orders'[o] = Cancelled(orders[o]))
           /\ (orders'[o].st = "none") <=> (orders[o].st = "none")
           /\ orders'[o].st = "none" => orders'[o] = orders[o]
           /\ (orders'[o].leg = "sold") <=> (orders[o].leg = "sold")
           /\ orders'[o].paper = orders[o].paper /\ orders'[o].size = orders[o].size
           /\ orders'[o].filled = orders[o].filled
           /\ orders'[o].st \in OpenEntry => orders[o].st \in OpenEntry
<1> SUFFICES ASSUME NEW o \in Orders
             PROVE  /\ orders'[o] = orders[o] \/
                         (orders[o].st \in OpenEntry /\ orders'[o] = Cancelled(orders[o]))
                    /\ (orders'[o].st = "none") <=> (orders[o].st = "none")
                    /\ orders'[o].st = "none" => orders'[o] = orders[o]
                    /\ (orders'[o].leg = "sold") <=> (orders[o].leg = "sold")
                    /\ orders'[o].paper = orders[o].paper /\ orders'[o].size = orders[o].size
                    /\ orders'[o].filled = orders[o].filled
                    /\ orders'[o].st \in OpenEntry => orders[o].st \in OpenEntry
  OBVIOUS
<1>1. orders'[o] = orders[o] \/ (orders[o].st \in OpenEntry /\ orders'[o] = Cancelled(orders[o]))
  BY DEF EmergencyCancel, Expire, ShutdownCancel
<1>2. orders[o] \in OrderRec
  BY DEF Types, TypeOK
<1>3. /\ Cancelled(orders[o]).st = "cancelled" /\ Cancelled(orders[o]).size = orders[o].size
      /\ Cancelled(orders[o]).paper = orders[o].paper /\ Cancelled(orders[o]).filled = orders[o].filled
      /\ Cancelled(orders[o]).leg = "sold" <=> orders[o].leg = "sold"
  BY <1>2, CancelledTyped
<1> QED
  BY <1>1, <1>3 DEF OpenEntry
\* The steps that move no order, no row and no event.
LEMMA NothingMoves ==
  ASSUME Types,
         UNCHANGED vars \/ SkipCycle \/ Pause \/ Restart \/ ShutdownCloseTracker \/ FlipSwitch
         \/ Midnight \/ StartCycle \/ PlacingDone \/ Account \/ EnterSizing \/ Scanned
         \/ Reconciled \/ Applied
  PROVE  /\ UNCHANGED <<orders, used, rows, events>> /\ history'.lost = history.lost
         /\ (pc' = "record") <=> (pc = "record")
         /\ (pc' = "close") <=> (pc = "close")
<1> USE DEF At, Running, local, money, outside
<1>1. CASE UNCHANGED vars \/ SkipCycle \/ Pause \/ Restart \/ ShutdownCloseTracker
  BY <1>1 DEF vars, SkipCycle, Pause, Restart, ShutdownCloseTracker
<1>2. CASE FlipSwitch \/ Midnight
  <2>1. UNCHANGED <<orders, used, rows, events, pc>>
    BY <1>2 DEF FlipSwitch, Midnight
  <2>2. history' = [history EXCEPT !.emergency = FALSE] \/ history' = [history EXCEPT !.today = 0]
    BY <1>2 DEF FlipSwitch, Midnight
  <2>3. history'.lost = history.lost
    BY <2>2 DEF Types
  <2> QED
    BY <2>1, <2>3
<1>3. CASE StartCycle \/ PlacingDone \/ EnterSizing \/ Scanned \/ Reconciled \/ Applied
  BY <1>3 DEF StartCycle, PlacingDone, EnterSizing, Scanned, Reconciled, Applied
<1>4. CASE Account
  <2>1. UNCHANGED <<orders, used, rows, events>> /\ pc = "account" /\ pc' = "expire"
    BY <1>4 DEF Account
  <2>2. history' = [history EXCEPT !.highest = LargerOf(@, bankroll')]
    BY <1>4 DEF Account
  <2>3. history'.lost = history.lost
    <3> DEFINE top == LargerOf(history.highest, bankroll')
    <3>1. history' = [history EXCEPT !.highest = top]
      BY <2>2
    <3> HIDE DEF top
    <3> QED
      BY <3>1 DEF Types
  <2> QED
    BY <2>1, <2>3
<1> QED
  BY <1>1, <1>2, <1>3, <1>4

\* No step lets the executor, the table and the events of an order disagree: the event is
\* there until the row is closed, and an order nobody remembers is counted as lost.
LEMMA BooksStep ==
  ASSUME Types, Queue, Placing, \A o \in Orders : Books(o), [Next]_vars, NEW o \in Orders
  PROVE  Books(o)'
<1>1. Books(o) /\ rows \in [Orders -> RowRec] /\ orders \in [Orders -> OrderRec]
  BY DEF Types, TypeOK
<1>2. history.lost \subseteq Orders
  BY DEF Types
<1> DEFINE Frame ==
      /\ used' = used
      /\ o > used => orders'[o] = orders[o] /\ rows'[o] = rows[o]
      /\ orders'[o].st = "none" <=> orders[o].st = "none"
      /\ orders'[o].st = "none" => orders'[o] = orders[o]
      /\ orders'[o].leg = "sold" <=> orders[o].leg = "sold"
      /\ rows'[o].st = rows[o].st
      /\ Waiting(o, "entry")' => Known(o)
      /\ Waiting(o, "exit")' <=> Waiting(o, "exit")
      /\ history.lost \subseteq history'.lost
      /\ pc = "record" /\ o = used /\ o \notin history'.lost => pc' = "record"
<1>3. Frame => Books(o)'
  <2> HIDE DEF Frame
  <2> SUFFICES ASSUME Frame PROVE Books(o)'
    OBVIOUS
  <2>1. o > used' => orders'[o] = NoOrder /\ rows'[o] = NoRow
    BY <1>1 DEF Books, Frame
  <2>2. ~Known(o)' => orders'[o] = NoOrder
    BY <1>1 DEF Books, Frame, Known
  <2>3. /\ Waiting(o, "entry")' => Known(o)'
        /\ Waiting(o, "exit")' => orders'[o].leg = "sold"
    BY <1>1 DEF Books, Frame, Known
  <2>4. /\ o <= used' /\ o \notin history'.lost => Known(o)'
        /\ Known(o)' /\ o \notin history'.lost /\ ~ (pc' = "record" /\ o = used') => rows'[o].st # "none"
    BY <1>1 DEF Books, Frame, Known
  <2>5. Known(o)' /\ rows'[o].st = "closed" => orders'[o].leg = "sold" /\ ~ Waiting(o, "exit")'
    BY <1>1 DEF Books, Frame, Known
  <2>6. orders'[o].leg = "sold" /\ o \notin history'.lost /\ ~ Waiting(o, "exit")'
          => rows'[o].st = "closed"
    BY <1>1 DEF Books, Frame
  <2> QED
    BY <2>1, <2>2, <2>3, <2>4, <2>5, <2>6 DEF Books
<1>4. CASE UNCHANGED vars \/ SkipCycle \/ Pause \/ Restart \/ ShutdownCloseTracker \/ FlipSwitch
           \/ Midnight \/ StartCycle \/ PlacingDone \/ Account \/ EnterSizing \/ Scanned
           \/ Reconciled \/ Applied
  <2>1. /\ UNCHANGED <<orders, used, rows, events>> /\ history'.lost = history.lost
        /\ (pc' = "record") <=> (pc = "record")
    BY <1>4, NothingMoves
  <2>2. \A kind : Waiting(o, kind)' <=> Waiting(o, kind)
    BY <2>1 DEF Waiting, Listed
  <2>3. Waiting(o, "entry")' => Known(o)
    BY <1>1, <2>2 DEF Books
  <2> QED
    BY <1>3, <2>1, <2>2, <2>3
<1> USE DEF At, Running, DbOpen, local, money, outside
<1>5. CASE EmergencyCancel \/ Expire \/ ShutdownCancel
  <2>1. /\ UNCHANGED <<used, events, history>>
        /\ (pc' = "record") <=> (pc = "record")
    BY <1>5 DEF EmergencyCancel, Expire, ShutdownCancel
  <2>6. \/ rows'[o] = rows[o]
        \/ rows'[o] = [rows[o] EXCEPT !.entry = "cancelled"] /\ rows[o].st # "none"
    BY <1>5 DEF EmergencyCancel, Expire, ShutdownCancel
  <2>7. rows[o] \in RowRec
    BY <1>1
  <2>2. rows'[o].st = rows[o].st
    BY <2>6, <2>7 DEF RowRec
  <2>3. o > used => rows'[o] = rows[o] /\ orders'[o] = orders[o]
    <3>1. o > used => rows[o].st = "none" /\ orders[o].st = "none"
      BY <1>1 DEF Books, NoRow, NoOrder
    <3> QED
      BY <1>5, <2>6, <3>1, CancelsAre DEF OpenEntry
  <2>4. \A kind : Waiting(o, kind)' <=> Waiting(o, kind)
    BY <2>1 DEF Waiting, Listed
  <2>5. Waiting(o, "entry")' => Known(o)
    BY <1>1, <2>4 DEF Books
  <2> QED
    BY <1>3, <1>5, <2>1, <2>2, <2>3, <2>4, <2>5, CancelsAre
<1>6. CASE \E p \in Orders : EntryFills(p) \/ VenueCancels(p) \/ LegTriggers(p) \/ LegExpires(p)
  <2>1. PICK p \in Orders : EntryFills(p) \/ VenueCancels(p) \/ LegTriggers(p) \/ LegExpires(p)
    BY <1>6
  <2> DEFINE V ==
           /\ UNCHANGED <<rows, used, pc, history>> /\ pc = "reconcile"
           /\ \A q \in Orders \ {p} : orders'[q] = orders[q]
           /\ orders[p].st # "none" \/ orders[p].leg = "armed"
           /\ orders'[p].st = "none" => orders[p].st = "none"
           /\ \/ /\ orders[p].st \in OpenEntry /\ ((orders'[p].leg = "sold") <=> (orders[p].leg = "sold"))
                 /\ \A q, kind : Waiting(q, kind)' <=> Waiting(q, kind) \/ (q = p /\ kind = "entry")
              \/ /\ orders[p].st \in OpenEntry /\ orders[p].leg = "armed" /\ orders'[p].leg = "sold"
                 /\ \A q, kind : Waiting(q, kind)' <=> Waiting(q, kind) \/ (q = p /\ kind \in {"entry", "exit"})
              \/ /\ orders[p].leg = "armed" /\ orders'[p].leg = "sold"
                 /\ \A q, kind : Waiting(q, kind)' <=> Waiting(q, kind) \/ (q = p /\ kind = "exit")
              \/ /\ orders[p].leg = "armed" /\ orders'[p].leg = "gone"
                 /\ \A q, kind : Waiting(q, kind)' <=> Waiting(q, kind)
  <2>2. V
    BY <2>1, VisitedIs
  <2>3. CASE o # p
    BY <1>1, <1>3, <2>2, <2>3 DEF Books
  <2>4. CASE o = p
    <3>1. orders[o].st # "none" /\ Known(o) /\ ~ (o > used) /\ orders'[o].st # "none"
      BY <1>1, <2>2, <2>4 DEF Books, NoOrder, Known
    <3>2. CASE orders[p].leg = "armed" /\ orders'[p].leg = "sold"
      <4>1. rows[o].st # "closed" /\ rows'[o] = rows[o]
        BY <1>1, <2>2, <2>4, <3>1, <3>2 DEF Books
      <4>2. Waiting(o, "exit")' /\ (Waiting(o, "entry")' => Known(o))
        BY <1>1, <2>2, <2>4, <3>1, <3>2 DEF Books
      <4>3. Known(o)'
        BY <3>1 DEF Known
      <4>4. UNCHANGED <<used, history, pc>> /\ orders'[o].leg = "sold"
        BY <2>2, <2>4, <3>2
      <4> QED
        BY <1>1, <2>2, <3>1, <4>1, <4>2, <4>3, <4>4 DEF Books
    <3>3. CASE ~ (orders[p].leg = "armed" /\ orders'[p].leg = "sold")
      <4>1. /\ orders'[o].leg = "sold" <=> orders[o].leg = "sold"
            /\ Waiting(o, "exit")' <=> Waiting(o, "exit")
        BY <2>2, <2>4, <3>3
      <4> QED
        BY <1>3, <2>2, <3>1, <4>1
    <3> QED
      BY <3>2, <3>3
  <2> QED
    BY <2>3, <2>4
<1>7. CASE ApplyEntry
  <2>1. events # <<>> /\ events' = Tail(events) /\ UNCHANGED <<orders, used, pc, history>> /\ pc = "apply"
        /\ Head(events)[2] = "entry"
    BY <1>7 DEF ApplyEntry
  <2> DEFINE p == events[1][1]
  <2>2. /\ p \in Orders /\ Head(events) = events[1]
        /\ \A kind : Waiting(o, kind)' <=> Waiting(o, kind) /\ <<o, kind>> # events[1]
        /\ events[1][2] = "entry"
    BY <2>1, Consumed
  <2> DEFINE row == IF /\ Synced(p).st # "none" /\ ~orders[p].paper /\ orders[p].st = "filled"
                       /\ Synced(p).fee = 0
                    THEN ChargeEntry(Synced(p), Traded(Synced(p))) ELSE Synced(p)
  <2>3. rows' = [rows EXCEPT ![p] = row]
    BY <1>7, <2>2 DEF ApplyEntry
  <2>4. Synced(p) \in RowRec /\ Synced(p).st = rows[p].st /\ (rows[p].st = "none" => Synced(p) = rows[p])
    BY <1>1, <2>2, SyncedIs
  <2>5. row.st = rows[p].st /\ (rows[p].st = "none" => row = rows[p])
    BY <2>4, Charged
  <2> HIDE DEF row, p
  <2>6. rows'[o].st = rows[o].st /\ (rows[o].st = "none" => rows'[o] = rows[o])
    BY <1>1, <2>2, <2>3, <2>5
  <2>7. o > used => rows'[o] = rows[o]
    BY <1>1, <2>6 DEF Books, NoRow
  <2>8. Waiting(o, "entry")' => Known(o)
    BY <1>1, <2>2 DEF Books
  <2>9. Waiting(o, "exit")' <=> Waiting(o, "exit")
    <3>1. <<o, "exit">> # events[1]
      BY <2>2
    <3> QED
      BY <2>2, <3>1
  <2> QED
    BY <1>3, <2>1, <2>6, <2>7, <2>8, <2>9
<1>8. CASE ApplyExitFee
  <2> DEFINE p == Head(events)[1]
  <2>1. /\ UNCHANGED <<orders, used, events, history>> /\ pc = "apply" /\ pc' = "close"
        /\ rows' = [rows EXCEPT ![p] = IF @.st = "none" THEN @ ELSE ChargeExit(@)]
    BY <1>8 DEF ApplyExitFee
  <2> HIDE DEF p
  <2>2. rows'[o].st = rows[o].st /\ (rows[o].st = "none" => rows'[o] = rows[o])
    BY <1>1, <2>1, Charged
  <2>3. o > used => rows'[o] = rows[o]
    BY <1>1, <2>2 DEF Books, NoRow
  <2>4. \A kind : Waiting(o, kind)' <=> Waiting(o, kind)
    BY <2>1 DEF Waiting, Listed
  <2>5. Waiting(o, "entry")' => Known(o)
    BY <1>1, <2>4 DEF Books
  <2> QED
    BY <1>3, <2>1, <2>2, <2>3, <2>4, <2>5
<1>9. CASE ApplyClose \/ CloseRollsBack
  <2> DEFINE p == events[1][1]
  <2>1. /\ events # <<>> /\ events' = Tail(events) /\ UNCHANGED <<orders, used>>
        /\ pc = "close" /\ pc' = "apply" /\ events[1][2] = "exit"
    BY <1>9 DEF ApplyClose, CloseRollsBack, Queue
  <2>2. /\ p \in Orders /\ Head(events) = events[1]
        /\ o # p => \A kind : Waiting(o, kind)' <=> Waiting(o, kind)
        /\ Waiting(p, "exit")
        /\ o = p => ~ Waiting(o, "entry")' /\ ~ Waiting(o, "exit")'
    <3>1. /\ p \in Orders /\ Head(events) = events[1] /\ events[1] = <<p, "exit">>
          /\ \A kind : Waiting(o, kind)' <=> Waiting(o, kind) /\ <<o, kind>> # events[1]
          /\ Waiting(p, "exit") /\ ~ Waiting(p, "entry")
      BY <2>1, Consumed
    <3> HIDE DEF p
    <3> QED
      BY <3>1
  <2> HIDE DEF p
  <2>3. /\ \A q \in Orders \ {p} : rows'[q] = rows[q]
        /\ history.lost \subseteq history'.lost
        /\ \/ p \in history'.lost /\ rows'[p] = rows[p]
           \/ /\ history'.lost = history.lost
              /\ rows'[p].st = IF rows[p].st = "none" THEN "none" ELSE "closed"
    <3>1. CASE ApplyClose
      <4> DEFINE row(pct) == IF rows[p].st = "none" THEN rows[p] ELSE Closed(rows[p], pct)
      <4>1. PICK pct \in GrossPct : /\ rows' = [rows EXCEPT ![p] = row(pct)]
                                    /\ history' = [history EXCEPT !.today = @ + row(pct).pnl]
        BY <2>2, <3>1 DEF ApplyClose, p
      <4>2. history'.lost = history.lost
        BY <4>1
      <4>3. pct \in Int
        BY <4>1, CycleAssumption
      <4>4. row(pct).st = IF rows[p].st = "none" THEN "none" ELSE "closed"
        BY <1>1, <2>2, <4>3, ClosedIs
      <4> HIDE DEF row
      <4> QED
        BY <1>1, <2>2, <4>1, <4>2, <4>4
    <3>2. CASE CloseRollsBack
      <4>1. history' = [history EXCEPT !.lost = @ \cup {p}] /\ rows' = rows
        BY <2>2, <3>2 DEF CloseRollsBack, p
      <4>2. history'.lost = history.lost \cup {p}
        BY <4>1 DEF Types
      <4> QED
        BY <4>1, <4>2
    <3> QED
      BY <1>9, <3>1, <3>2
  <2>4. CASE o # p
    <3>1. Waiting(o, "entry")' => Known(o)
      BY <1>1, <2>2 DEF Books
    <3> QED
      BY <1>3, <2>1, <2>2, <2>3, <2>4, <3>1
  <2>5. CASE o = p
    <3>1. /\ orders[o].leg = "sold" /\ Known(o) /\ ~ (o > used) /\ rows[o].st # "closed"
          /\ o \notin history.lost => rows[o].st # "none"
      BY <1>1, <2>1, <2>2, <2>5 DEF Books, NoOrder, Known
    <3>2. ~ Waiting(o, "entry")' /\ ~ Waiting(o, "exit")'
      BY <2>2, <2>5
    <3>3. Known(o)' /\ orders'[o].leg = "sold" /\ ~ (o > used')
      BY <2>1, <3>1 DEF Known
    <3>4. o \notin history'.lost => rows'[o].st = "closed"
      BY <2>3, <2>5, <3>1
    <3> QED
      BY <2>1, <3>2, <3>3, <3>4 DEF Books
  <2> QED
    BY <2>4, <2>5
<1>10. CASE EmergencyHalt
  <2>1. UNCHANGED <<orders, used, rows>> /\ events' = <<>> /\ events = <<>> /\ pc = "halt" /\ pc' = "idle"
        /\ history' = [history EXCEPT !.emergency = TRUE]
    BY <1>10 DEF EmergencyHalt, LocalsEnd, Queue
  <2>2. \A kind : ~ Waiting(o, kind)' /\ ~ Waiting(o, kind)
    BY <2>1 DEF Waiting, Listed
  <2>3. history'.lost = history.lost
    BY <2>1
  <2> QED
    BY <1>3, <2>1, <2>2, <2>3
<1>11. CASE Fail
  <2>1. UNCHANGED <<orders, used, rows>> /\ events' = <<>> /\ pc' = "idle"
        /\ history' = [history EXCEPT !.disturbed = TRUE, !.lost = @ \cup Unwritten]
    BY <1>11 DEF Fail, LocalsEnd
  <2>2. history'.lost = history.lost \cup Unwritten
    <3> DEFINE U == Unwritten
    <3> HIDE DEF U
    <3>1. history' = [history EXCEPT !.disturbed = TRUE, !.lost = @ \cup U]
      BY <2>1 DEF U
    <3> QED
      BY <3>1 DEF Types, U
  <2>3. Waiting(o, "exit") => o \in Unwritten
    BY DEF Waiting, Listed, Unwritten
  <2>4. pc = "record" /\ o = used => o \in Unwritten
    BY DEF Unwritten
  <2>5. \A kind : ~ Waiting(o, kind)'
    BY <2>1 DEF Waiting, Listed
  <2>6. CASE Waiting(o, "exit")
    <3>1. /\ orders[o].leg = "sold" /\ Known(o) /\ ~ (o > used) /\ rows[o].st # "closed" /\ o \in history'.lost
      BY <1>1, <2>2, <2>3, <2>6 DEF Books, NoOrder, Known
    <3>2. Known(o)' /\ ~ (o > used') /\ rows'[o].st # "closed"
      BY <2>1, <3>1 DEF Known
    <3> QED
      BY <2>5, <3>1, <3>2 DEF Books
  <2>7. CASE ~ Waiting(o, "exit")
    BY <1>3, <2>1, <2>2, <2>4, <2>5, <2>7
  <2> QED
    BY <2>6, <2>7
<1>12. CASE Exit \/ Crash
  <2>1. Forget
    BY <1>12 DEF Exit, Crash
  <2>2. UNCHANGED <<used, rows>> /\ orders'[o] = NoOrder /\ events' = <<>> /\ pc' = "idle"
    BY <2>1 DEF Forget, LocalsEnd
  <2>3. history'.lost = history.lost \cup Unwritten \cup {q \in Orders : Known(q)}
    <3> DEFINE gone == history.lost \cup Unwritten \cup {q \in Orders : Known(q)}
    <3>1. history' = [history EXCEPT !.disturbed = TRUE, !.emergency = FALSE, !.today = 0, !.lost = gone]
      BY <2>1 DEF Forget
    <3> HIDE DEF gone
    <3>2. history'.lost = gone
      BY <3>1 DEF Types
    <3> QED
      BY <3>2 DEF gone
  <2>4. \A kind : ~ Waiting(o, kind)'
    BY <2>2 DEF Waiting, Listed
  <2>5. ~ Known(o)' /\ orders'[o].leg = "none"
    BY <2>2 DEF Known, NoOrder
  <2>6. o > used' => rows'[o] = NoRow
    BY <1>1, <2>2 DEF Books
  <2>7. o <= used' => o \in history'.lost
    BY <1>1, <2>2, <2>3 DEF Books
  <2> QED
    BY <2>2, <2>4, <2>5, <2>6, <2>7 DEF Books
<1>13. CASE PlaceOrder
  <2> DEFINE p == used + 1
  <2>1. /\ p \in Orders /\ used' = p /\ UNCHANGED <<rows, events, history>>
        /\ \A q \in Orders \ {p} : orders'[q] = orders[q]
        /\ orders'[p].st \in {"placed", "filled"} /\ orders'[p].leg \in {"none", "armed"}
    BY <1>13, PlacedIs
  <2>2. pc = "place" /\ pc' = "record"
    BY <1>13 DEF PlaceOrder
  <2>3. events = <<>>
    BY <2>2 DEF Queue
  <2>4. \A kind : ~ Waiting(o, kind)' /\ ~ Waiting(o, kind)
    BY <2>1, <2>3 DEF Waiting, Listed
  <2>5. used \in Nat /\ o \in Nat /\ p = used + 1
    BY DEF Types, TypeOK, Orders
  <2> HIDE DEF p
  <2>6. CASE o = p
    <3>1. rows[o] = NoRow
      BY <1>1, <2>5, <2>6 DEF Books
    <3>2. rows'[o].st = "none" /\ Known(o)' /\ orders'[o].leg # "sold" /\ ~ (o > used')
      BY <2>1, <2>5, <2>6, <3>1 DEF Known, NoRow
    <3> QED
      BY <2>1, <2>2, <2>4, <2>6, <3>2 DEF Books
  <2>7. CASE o # p
    <3>1. orders'[o] = orders[o] /\ rows'[o] = rows[o] /\ history' = history /\ (Known(o)' <=> Known(o))
      BY <2>1, <2>7 DEF Known
    <3>2. (o > used' => o > used) /\ (o <= used' => o <= used)
      BY <2>1, <2>5, <2>7
    <3> QED
      BY <1>1, <2>2, <2>4, <3>1, <3>2 DEF Books
  <2> QED
    BY <2>6, <2>7
<1>14. CASE Record
  <2>1. /\ used \in Orders /\ rows[used] = NoRow /\ UNCHANGED <<orders, used, events, history>>
        /\ \A q \in Orders \ {used} : rows'[q] = rows[q]
        /\ rows'[used].st = "open"
    BY <1>14, RecordedIs
  <2>2. pc = "record" /\ pc' = "place"
    BY <1>14 DEF Record
  <2>3. events = <<>>
    BY <2>2 DEF Queue
  <2>4. \A kind : ~ Waiting(o, kind)' /\ ~ Waiting(o, kind)
    BY <2>1, <2>3 DEF Waiting, Listed
  <2>5. CASE o = used
    <3>1. rows[o].st = "none" /\ ~ (o > used') /\ rows'[o].st = "open" /\ (Known(o)' <=> Known(o))
      BY <2>1, <2>5 DEF NoRow, Known, Orders
    <3> QED
      BY <1>1, <2>1, <2>2, <2>4, <2>5, <3>1 DEF Books
  <2>6. CASE o # used
    BY <1>1, <1>3, <2>1, <2>2, <2>4, <2>6
  <2> QED
    BY <2>5, <2>6
<1>15. CASE Audit
  <2>1. UNCHANGED <<orders, used, events, history>> /\ pc = "audit" /\ pc' = "idle"
    BY <1>15 DEF Audit
  <2>2. \A kind : Waiting(o, kind)' <=> Waiting(o, kind)
    BY <2>1 DEF Waiting, Listed
  <2>3. Waiting(o, "entry")' => Known(o)
    BY <1>1, <2>2 DEF Books
  <2>4. CASE o \in Phantoms
    <3>1. rows[o].st = "open" /\ ~ Known(o)
      BY <2>4 DEF Phantoms, OpenRows
    <3>2. ~ (o > used) /\ orders[o] = NoOrder
      BY <1>1, <3>1 DEF Books, NoRow
    <3>3. ~ Known(o)' /\ orders'[o] = NoOrder /\ orders'[o].leg = "none" /\ ~ (o > used')
      BY <2>1, <3>1, <3>2 DEF Known, NoOrder
    <3>4. ~ Waiting(o, "entry")' /\ ~ Waiting(o, "exit")'
      BY <1>1, <2>2, <3>1, <3>2 DEF Books, NoOrder
    <3>5. o \in history'.lost
      BY <1>1, <2>1, <3>1, <3>2 DEF Books, Types, TypeOK, Orders
    <3> QED
      BY <3>3, <3>4, <3>5 DEF Books
  <2>5. CASE o \notin Phantoms
    <3>1. rows'[o] = rows[o]
      BY <1>15, <2>5, AuditIs
    <3> QED
      BY <1>3, <2>1, <2>2, <2>3, <3>1
  <2> QED
    BY <2>4, <2>5
<1> QED
  BY <1>4, <1>5, <1>6, <1>7, <1>8, <1>9, <1>10, <1>11, <1>12, <1>13, <1>14, <1>15
  DEF Next, RunCycle, Process, Lifecycle, Trade
\* No step charges an entry that may be charged again, nor a second exit.
LEMMA FeesStep ==
  ASSUME Types, Queue, Placing, NEW o \in Orders, Books(o), Fees(o), [Next]_vars
  PROVE  Fees(o)'
<1>1. rows \in [Orders -> RowRec] /\ orders \in [Orders -> OrderRec] /\ rows[o] \in RowRec
  BY DEF Types, TypeOK
<1>2. rows[o].entryFees \in Nat /\ rows[o].exitFees \in Nat
  BY <1>1 DEF RowRec
<1> DEFINE AtHead == pc = "close" /\ events[1][1] = o
           Frame ==
             /\ rows'[o].entryFees = rows[o].entryFees /\ rows'[o].exitFees = rows[o].exitFees
             /\ Known(o)' => Known(o) /\ (orders'[o].paper <=> orders[o].paper)
             /\ orders'[o].st \in OpenEntry => orders[o].st \in OpenEntry
             /\ Waiting(o, "entry")' => Waiting(o, "entry")
             /\ orders'[o].leg # "sold" => orders[o].leg # "sold"
             /\ Waiting(o, "exit")' /\ ~ AtHead' => Waiting(o, "exit") /\ ~ AtHead
<1>3. Frame => Fees(o)'
  BY <1>2 DEF Fees
<1>4. CASE UNCHANGED vars \/ SkipCycle \/ Pause \/ Restart \/ ShutdownCloseTracker \/ FlipSwitch
           \/ Midnight \/ StartCycle \/ PlacingDone \/ Account \/ EnterSizing \/ Scanned
           \/ Reconciled \/ Applied
  <2>1. /\ UNCHANGED <<orders, used, rows, events>>
        /\ (pc' = "close") <=> (pc = "close")
    BY <1>4, NothingMoves
  <2>2. \A kind : Waiting(o, kind)' <=> Waiting(o, kind)
    BY <2>1 DEF Waiting, Listed
  <2> QED
    BY <1>3, <2>1, <2>2 DEF Known
<1> USE DEF At, Running, DbOpen, local, money, outside
<1>5. CASE EmergencyCancel \/ Expire \/ ShutdownCancel
  <2>1. /\ UNCHANGED <<used, events>>
        /\ (pc' = "close") <=> (pc = "close")
    BY <1>5 DEF EmergencyCancel, Expire, ShutdownCancel
  <2>2. \/ rows'[o] = rows[o]
        \/ rows'[o] = [rows[o] EXCEPT !.entry = "cancelled"] /\ rows[o].st # "none"
    BY <1>5 DEF EmergencyCancel, Expire, ShutdownCancel
  <2>3. rows'[o].entryFees = rows[o].entryFees /\ rows'[o].exitFees = rows[o].exitFees
    BY <1>1, <2>2 DEF RowRec
  <2>4. \A kind : Waiting(o, kind)' <=> Waiting(o, kind)
    BY <2>1 DEF Waiting, Listed
  <2> QED
    BY <1>3, <1>5, <2>1, <2>3, <2>4, CancelsAre DEF Known
<1>6. CASE \E p \in Orders : EntryFills(p) \/ VenueCancels(p) \/ LegTriggers(p) \/ LegExpires(p)
  <2>1. PICK p \in Orders : EntryFills(p) \/ VenueCancels(p) \/ LegTriggers(p) \/ LegExpires(p)
    BY <1>6
  <2> DEFINE V ==
           /\ UNCHANGED <<rows, used, pc, history>> /\ pc = "reconcile"
           /\ \A q \in Orders \ {p} : orders'[q] = orders[q]
           /\ orders[p].st # "none" \/ orders[p].leg = "armed"
           /\ orders'[p].st = "none" => orders[p].st = "none"
           /\ orders'[p].paper = orders[p].paper
           /\ orders'[p].st \in OpenEntry => orders[p].st \in OpenEntry
           /\ \/ /\ orders[p].st \in OpenEntry /\ ((orders'[p].leg = "sold") <=> (orders[p].leg = "sold"))
                 /\ \A q, kind : Waiting(q, kind)' <=> Waiting(q, kind) \/ (q = p /\ kind = "entry")
              \/ /\ orders[p].st \in OpenEntry /\ orders[p].leg = "armed" /\ orders'[p].leg = "sold"
                 /\ \A q, kind : Waiting(q, kind)' <=> Waiting(q, kind) \/ (q = p /\ kind \in {"entry", "exit"})
              \/ /\ orders[p].leg = "armed" /\ orders'[p].leg = "sold"
                 /\ \A q, kind : Waiting(q, kind)' <=> Waiting(q, kind) \/ (q = p /\ kind = "exit")
              \/ /\ orders[p].leg = "armed" /\ orders'[p].leg = "gone"
                 /\ \A q, kind : Waiting(q, kind)' <=> Waiting(q, kind)
  <2>2. V
    BY <2>1, VisitedIs
  <2>3. CASE o # p
    <3>1. orders'[o] = orders[o] /\ rows'[o] = rows[o] /\ pc = "reconcile" /\ pc' = "reconcile"
          /\ \A kind : Waiting(o, kind)' <=> Waiting(o, kind)
      BY <2>2, <2>3
    <3> QED
      BY <1>3, <3>1 DEF Known
  <2>4. CASE o = p
    <3>1. Known(o) /\ rows'[o] = rows[o] /\ pc = "reconcile" /\ pc' = "reconcile"
      BY <2>2, <2>4 DEF Books, NoOrder, Known
    <3>2. CASE /\ orders[p].st \in OpenEntry
               /\ (orders'[p].leg = "sold") <=> (orders[p].leg = "sold")
               /\ \A q, kind : Waiting(q, kind)' <=> Waiting(q, kind) \/ (q = p /\ kind = "entry")
      <4>1. ~ orders'[o].paper => rows[o].entryFees = 0
        BY <1>2, <2>2, <2>4, <3>1, <3>2 DEF Fees
      <4>2. orders'[o].leg # "sold" => rows[o].exitFees = 0
        BY <2>4, <3>1, <3>2 DEF Fees
      <4>3. Waiting(o, "exit")' => rows[o].exitFees = 0
        BY <3>1, <3>2 DEF Fees
      <4> QED
        BY <3>1, <4>1, <4>2, <4>3 DEF Fees
    <3>3. CASE /\ orders[p].leg = "armed"
               /\ \A q : Waiting(q, "entry")' <=> Waiting(q, "entry")
      <4>1. rows[o].exitFees = 0
        BY <2>4, <3>1, <3>3 DEF Fees
      <4>2. /\ Known(o)' /\ ~ orders'[o].paper /\ rows'[o].entryFees > 0
                 => orders'[o].st \notin OpenEntry /\ ~ Waiting(o, "entry")'
        BY <2>2, <2>4, <3>1, <3>3 DEF Fees
      <4> QED
        BY <3>1, <4>1, <4>2 DEF Fees
    <3>4. CASE /\ orders[p].st \in OpenEntry /\ orders[p].leg = "armed" /\ orders'[p].leg = "sold"
      <4>1. ~ orders'[o].paper => rows[o].entryFees = 0
        BY <1>2, <2>2, <2>4, <3>1, <3>4 DEF Fees
      <4>2. rows[o].exitFees = 0
        BY <2>4, <3>1, <3>4 DEF Fees
      <4> QED
        BY <3>1, <4>1, <4>2 DEF Fees
    <3> QED
      BY <2>2, <3>2, <3>3, <3>4
  <2> QED
    BY <2>3, <2>4
<1>7. CASE ApplyEntry
  <2>1. events # <<>> /\ events' = Tail(events) /\ UNCHANGED <<orders, used, pc, history>> /\ pc = "apply"
    BY <1>7 DEF ApplyEntry
  <2> DEFINE p == events[1][1]
  <2>2. /\ p \in Orders /\ Head(events) = events[1]
        /\ \A kind : Waiting(o, kind)' <=> Waiting(o, kind) /\ <<o, kind>> # events[1]
        /\ Waiting(p, events[1][2]) /\ events[1] = <<p, events[1][2]>>
    BY <2>1, Consumed
  <2> DEFINE row == IF /\ Synced(p).st # "none" /\ ~orders[p].paper /\ orders[p].st = "filled"
                       /\ Synced(p).fee = 0
                    THEN ChargeEntry(Synced(p), Traded(Synced(p))) ELSE Synced(p)
  <2>3. rows' = [rows EXCEPT ![p] = row] /\ events[1][2] = "entry"
    BY <1>7, <2>2 DEF ApplyEntry
  <2>4. /\ Synced(p) \in RowRec
        /\ Synced(p).entryFees = rows[p].entryFees /\ Synced(p).exitFees = rows[p].exitFees
    BY <1>1, <2>2, SyncedIs
  <2>5. /\ row.exitFees = rows[p].exitFees
        /\ \/ row.entryFees = rows[p].entryFees
           \/ row.entryFees = rows[p].entryFees + 1 /\ ~ orders[p].paper /\ orders[p].st = "filled"
    BY <2>4, Charged
  <2> HIDE DEF row, p
  <2>6. CASE o # p
    <3>1. orders'[o] = orders[o] /\ rows'[o] = rows[o] /\ pc = "apply" /\ pc' = "apply"
          /\ \A kind : Waiting(o, kind)' <=> Waiting(o, kind)
      BY <1>1, <2>1, <2>2, <2>3, <2>6
    <3> QED
      BY <1>3, <3>1 DEF Known
  <2>7. CASE o = p
    <3>1. /\ rows'[o] = row /\ Known(o) /\ Waiting(o, "entry") /\ orders'[o] = orders[o]
          /\ ~ Waiting(o, "entry")' /\ (Waiting(o, "exit")' => Waiting(o, "exit"))
      BY <1>1, <2>1, <2>2, <2>3, <2>7 DEF Books
    <3>2. /\ rows'[o].exitFees = rows[o].exitFees
          /\ \/ rows'[o].entryFees = rows[o].entryFees
             \/ /\ rows[o].entryFees = 0 /\ rows'[o].entryFees = 1 /\ ~ orders[o].paper
                /\ orders[o].st = "filled"
      BY <1>2, <2>5, <2>7, <3>1 DEF Fees
    <3>3. CASE rows'[o].entryFees = rows[o].entryFees
      BY <1>3, <2>1, <3>1, <3>2, <3>3 DEF Known
    <3>4. CASE /\ rows[o].entryFees = 0 /\ rows'[o].entryFees = 1 /\ ~ orders[o].paper
               /\ orders[o].st = "filled"
      <4>1. Waiting(o, "exit")' => rows'[o].exitFees = 0
        BY <2>1, <3>1, <3>2 DEF Fees
      <4> QED
        BY <3>1, <3>2, <3>4, <4>1 DEF Fees, Known, OpenEntry
    <3> QED
      BY <3>2, <3>3, <3>4
  <2> QED
    BY <2>6, <2>7
<1>8. CASE ApplyExitFee
  <2> DEFINE p == events[1][1]
  <2>1. /\ UNCHANGED <<orders, used, events, history>> /\ pc = "apply" /\ pc' = "close" /\ events # <<>>
        /\ rows' = [rows EXCEPT ![p] = IF @.st = "none" THEN @ ELSE ChargeExit(@)]
    <3>1. events # <<>> /\ Head(events) = events[1]
      BY <1>8 DEF ApplyExitFee, Types
    <3> QED
      BY <1>8, <3>1 DEF ApplyExitFee
  <2>2. p \in Orders /\ events[1][2] = "exit"
    BY <1>8 DEF ApplyExitFee, Types
  <2>3. \A kind : Waiting(o, kind)' <=> Waiting(o, kind)
    BY <2>1 DEF Waiting, Listed
  <2>4. Waiting(p, "exit") /\ p' = p
    <3>1. 1 \in DOMAIN events /\ events[1] = <<p, "exit">>
      BY <2>1, <2>2 DEF Types
    <3> QED
      BY <2>1, <3>1 DEF Waiting, Listed
  <2>5. CASE o # p
    <3>1. orders'[o] = orders[o] /\ rows'[o] = rows[o]
      BY <1>1, <2>1, <2>5
    <3>2. ~ AtHead /\ ~ AtHead'
      BY <2>1, <2>4, <2>5
    <3> HIDE DEF p, AtHead
    <3> QED
      BY <1>3, <2>3, <3>1, <3>2 DEF Known
  <2>6. CASE o = p
    <3>1. AtHead' /\ orders[o].leg = "sold" /\ rows[o].exitFees = 0
      BY <2>1, <2>4, <2>6 DEF Books, Fees
    <3>2. /\ rows'[o].entryFees = rows[o].entryFees
          /\ rows'[o].exitFees \in {rows[o].exitFees, rows[o].exitFees + 1}
      <4> HIDE DEF p
      <4> QED
        BY <1>1, <2>1, <2>2, <2>6, Charged
    <3> HIDE DEF p
    <3> QED
      BY <2>1, <2>3, <3>1, <3>2 DEF Fees, Known
  <2> QED
    BY <2>5, <2>6
<1>9. CASE ApplyClose \/ CloseRollsBack
  <2> DEFINE p == events[1][1]
  <2>1. /\ events # <<>> /\ events' = Tail(events) /\ UNCHANGED <<orders, used>>
        /\ pc = "close" /\ pc' = "apply" /\ events[1][2] = "exit"
    BY <1>9 DEF ApplyClose, CloseRollsBack, Queue
  <2>2. /\ p \in Orders /\ Head(events) = events[1] /\ events[1] = <<p, "exit">>
        /\ \A kind : Waiting(o, kind)' <=> Waiting(o, kind) /\ <<o, kind>> # events[1]
    BY <2>1, Consumed
  <2>3. rows'[o].entryFees = rows[o].entryFees /\ rows'[o].exitFees = rows[o].exitFees
    <3>1. CASE ApplyClose
      <4> DEFINE row(pct) == IF rows[p].st = "none" THEN rows[p] ELSE Closed(rows[p], pct)
      <4>1. PICK pct \in GrossPct : rows' = [rows EXCEPT ![p] = row(pct)]
        BY <2>2, <3>1 DEF ApplyClose
      <4>2. pct \in Int
        BY <4>1, CycleAssumption
      <4> HIDE DEF p
      <4>3. row(pct).entryFees = rows[p].entryFees /\ row(pct).exitFees = rows[p].exitFees
        BY <1>1, <2>2, <4>2, ClosedIs
      <4> HIDE DEF row
      <4> QED
        BY <1>1, <2>2, <4>1, <4>3
    <3>2. CASE CloseRollsBack
      BY <3>2 DEF CloseRollsBack
    <3> QED
      BY <1>9, <3>1, <3>2
  <2>4. Waiting(o, "exit")' => ~ AtHead
    BY <2>2
  <2> QED
    BY <1>3, <2>1, <2>2, <2>3, <2>4 DEF Known
<1>10. CASE EmergencyHalt \/ Fail
  <2>1. UNCHANGED <<orders, used, rows>> /\ events' = <<>> /\ pc' = "idle"
    BY <1>10 DEF EmergencyHalt, Fail, LocalsEnd, Queue
  <2>2. \A kind : ~ Waiting(o, kind)'
    BY <2>1 DEF Waiting, Listed
  <2> QED
    BY <1>3, <2>1, <2>2 DEF Known
<1>11. CASE Exit \/ Crash
  <2>1. Forget
    BY <1>11 DEF Exit, Crash
  <2>2. UNCHANGED <<used, rows>> /\ orders'[o] = NoOrder /\ events' = <<>> /\ pc' = "idle"
    BY <2>1 DEF Forget, LocalsEnd
  <2>3. ~ Known(o)' /\ \A kind : ~ Waiting(o, kind)'
    BY <2>2 DEF Waiting, Listed, Known, NoOrder
  <2> QED
    BY <2>2, <2>3 DEF Fees
<1>12. CASE PlaceOrder
  <2> DEFINE p == used + 1
  <2>1. /\ p \in Orders /\ used' = p /\ UNCHANGED <<rows, events, history>>
        /\ \A q \in Orders \ {p} : orders'[q] = orders[q]
    BY <1>12, PlacedIs
  <2>2. pc = "place" /\ pc' = "record"
    BY <1>12 DEF PlaceOrder
  <2>3. events = <<>>
    BY <2>2 DEF Queue
  <2>4. \A kind : ~ Waiting(o, kind)'
    BY <2>1, <2>3 DEF Waiting, Listed
  <2>5. used \in Nat /\ o \in Nat /\ p = used + 1
    BY DEF Types, TypeOK, Orders
  <2> HIDE DEF p
  <2>6. CASE o = p
    <3>1. rows[o] = NoRow
      BY <2>5, <2>6 DEF Books
    <3>2. rows'[o].entryFees = 0 /\ rows'[o].exitFees = 0
      BY <2>1, <3>1 DEF NoRow
    <3> QED
      BY <2>4, <3>2 DEF Fees
  <2>7. CASE o # p
    <3>1. orders'[o] = orders[o] /\ rows'[o] = rows[o]
      BY <2>1, <2>7
    <3> QED
      BY <1>3, <2>4, <3>1 DEF Known
  <2> QED
    BY <2>6, <2>7
<1>13. CASE Record
  <2>1. /\ used \in Orders /\ rows[used] = NoRow /\ UNCHANGED <<orders, used, events, history>>
        /\ \A q \in Orders \ {used} : rows'[q] = rows[q]
        /\ rows'[used].exitFees = 0
        /\ \/ rows'[used].entryFees = 0
           \/ /\ rows'[used].entryFees = 1
              /\ orders[used].paper \/ orders[used].st = "filled"
    BY <1>13, RecordedIs
  <2>2. pc = "record" /\ pc' = "place"
    BY <1>13 DEF Record
  <2>3. events = <<>>
    BY <2>2 DEF Queue
  <2>4. \A kind : ~ Waiting(o, kind)'
    BY <2>1, <2>3 DEF Waiting, Listed
  <2>5. CASE o = used
    BY <2>1, <2>4, <2>5 DEF Fees, OpenEntry
  <2>6. CASE o # used
    BY <1>3, <2>1, <2>4, <2>6 DEF Known
  <2> QED
    BY <2>5, <2>6
<1>14. CASE Audit
  <2>1. UNCHANGED <<orders, used, events, history>> /\ pc = "audit" /\ pc' = "idle"
    BY <1>14 DEF Audit
  <2>2. \A kind : Waiting(o, kind)' <=> Waiting(o, kind)
    BY <2>1 DEF Waiting, Listed
  <2>3. rows'[o] = rows[o] \/ \E pct \in Int : rows'[o] = Closed(rows[o], pct)
    BY <1>14, AuditIs
  <2>4. rows'[o].entryFees = rows[o].entryFees /\ rows'[o].exitFees = rows[o].exitFees
    BY <1>1, <2>3, ClosedIs
  <2> QED
    BY <1>3, <2>1, <2>2, <2>4 DEF Known
<1> QED
  BY <1>4, <1>5, <1>6, <1>7, <1>8, <1>9, <1>10, <1>11, <1>12, <1>13, <1>14
  DEF Next, RunCycle, Process, Lifecycle, Trade
-----------------------------------------------------------------------------
(* The trades table.                                                       *)

\* Open trades close; everything else in the table that the ledger shows stays.
TableCloses(S) ==
  /\ \A o \in S : /\ rows[o].st = "open" /\ rows'[o].st = "closed"
                 /\ \E pct \in GrossPct \cup {0} : rows'[o] = Closed(rows[o], pct)
  /\ \A o \in Orders \ S : rows'[o].st = rows[o].st /\ rows'[o].pnl = rows[o].pnl
  /\ \A o \in Orders : rows'[o].size = rows[o].size

\* A step records a trade, or closes trades that are open (none, one or the phantoms).
LEMMA TableStep ==
  ASSUME Types, Queue, Placing, \A o \in Orders : Books(o), [Next]_vars
  PROVE  Record \/ \E S \in SUBSET Orders : TableCloses(S)
<1>1. rows \in [Orders -> RowRec] /\ orders \in [Orders -> OrderRec] /\ \A o \in Orders : rows[o] \in RowRec
  BY DEF Types, TypeOK
<1>2. ASSUME \A o \in Orders : rows'[o].st = rows[o].st /\ rows'[o].pnl = rows[o].pnl /\ rows'[o].size = rows[o].size
      PROVE  TableCloses({})
  BY <1>2 DEF TableCloses
<1>3. ASSUME UNCHANGED rows PROVE \E S \in SUBSET Orders : TableCloses(S)
  BY <1>2, <1>3
<1>4. CASE UNCHANGED vars \/ SkipCycle \/ Pause \/ Restart \/ ShutdownCloseTracker \/ FlipSwitch
           \/ Midnight \/ StartCycle \/ PlacingDone \/ Account \/ EnterSizing \/ Scanned
           \/ Reconciled \/ Applied
  BY <1>3, <1>4, NothingMoves
<1> USE DEF At, Running, DbOpen, local, money, outside
<1>5. CASE EmergencyCancel \/ ShutdownCancel \/ CloseRollsBack \/ EmergencyHalt \/ Fail \/ Exit \/ Crash
           \/ PlaceOrder
  BY <1>3, <1>5 DEF EmergencyCancel, ShutdownCancel, CloseRollsBack, EmergencyHalt, Fail, Exit, Crash,
                    PlaceOrder, Forget
<1>6. CASE \E p \in Orders : EntryFills(p) \/ VenueCancels(p) \/ LegTriggers(p) \/ LegExpires(p)
  BY <1>3, <1>6, VisitedIs
<1>7. CASE Expire
  <2>1. ASSUME NEW o \in Orders
        PROVE rows'[o].st = rows[o].st /\ rows'[o].pnl = rows[o].pnl /\ rows'[o].size = rows[o].size
    <3>1. rows'[o] = rows[o] \/ rows'[o] = [rows[o] EXCEPT !.entry = "cancelled"]
      BY <1>7 DEF Expire
    <3>2. rows[o] \in RowRec
      BY <1>1
    <3> QED
      BY <3>1, <3>2 DEF RowRec
  <2> QED
    BY <1>2, <2>1
<1>8. CASE ApplyEntry
  <2> DEFINE p == Head(events)[1]
             row == IF /\ Synced(p).st # "none" /\ ~orders[p].paper /\ orders[p].st = "filled"
                       /\ Synced(p).fee = 0
                    THEN ChargeEntry(Synced(p), Traded(Synced(p))) ELSE Synced(p)
  <2>1. rows' = [rows EXCEPT ![p] = row] /\ p \in Orders
    BY <1>8 DEF ApplyEntry, Types
  <2>2. /\ Synced(p) \in RowRec /\ Synced(p).st = rows[p].st /\ Synced(p).pnl = rows[p].pnl
        /\ Synced(p).size = rows[p].size
    BY <1>1, <2>1, SyncedIs
  <2>3. row.st = rows[p].st /\ row.pnl = rows[p].pnl /\ row.size = rows[p].size
    BY <2>2, Charged
  <2> HIDE DEF row, p
  <2>4. \A o \in Orders : rows'[o].st = rows[o].st /\ rows'[o].pnl = rows[o].pnl /\ rows'[o].size = rows[o].size
    BY <1>1, <2>1, <2>3
  <2> QED
    BY <1>2, <2>4
<1>9. CASE ApplyExitFee
  <2> DEFINE p == Head(events)[1]
  <2>1. rows' = [rows EXCEPT ![p] = IF @.st = "none" THEN @ ELSE ChargeExit(@)]
    BY <1>9 DEF ApplyExitFee
  <2> HIDE DEF p
  <2>2. \A o \in Orders : rows'[o].st = rows[o].st /\ rows'[o].pnl = rows[o].pnl /\ rows'[o].size = rows[o].size
    BY <1>1, <2>1, Charged
  <2> QED
    BY <1>2, <2>2
<1>10. CASE ApplyClose
  <2> DEFINE p == events[1][1]
             row(pct) == IF rows[p].st = "none" THEN rows[p] ELSE Closed(rows[p], pct)
  <2>1. /\ events # <<>> /\ events' = Tail(events) /\ events[1][2] = "exit"
    BY <1>10 DEF ApplyClose, Queue
  <2>2. p \in Orders /\ Head(events) = events[1] /\ Waiting(p, "exit")
    BY <2>1, Consumed
  <2>3. PICK pct \in GrossPct : rows' = [rows EXCEPT ![p] = row(pct)]
    BY <1>10, <2>2 DEF ApplyClose
  <2>4. pct \in Int
    BY <2>3, CycleAssumption
  <2> HIDE DEF p
  <2>5. rows[p].st # "closed"
    BY <2>2 DEF Books, Known, NoOrder
  <2>6. rows[p].st \in {"none", "open", "closed"}
    BY <1>1, <2>2 DEF RowRec
  <2>7. row(pct).size = rows[p].size /\ (rows[p].st = "none" => row(pct) = rows[p])
        /\ (rows[p].st = "open" => row(pct).st = "closed")
    BY <1>1, <2>2, <2>4, ClosedIs
  <2>11. rows[p].st = "open" => row(pct) = Closed(rows[p], pct)
    OBVIOUS
  <2> HIDE DEF row
  <2>8. /\ \A o \in Orders \ {p} : rows'[o] = rows[o]
        /\ rows'[p] = row(pct)
    BY <1>1, <2>2, <2>3
  <2>9. CASE rows[p].st = "none"
    BY <1>2, <2>7, <2>8, <2>9
  <2>10. CASE rows[p].st = "open"
    <3>1. rows'[p] = Closed(rows[p], pct) /\ rows'[p].st = "closed" /\ rows'[p].size = rows[p].size
      BY <2>7, <2>8, <2>10, <2>11
    <3>2. \E q \in GrossPct \cup {0} : rows'[p] = Closed(rows[p], q)
      BY <2>3, <3>1
    <3>3. TableCloses({p})
      BY <2>2, <2>8, <2>10, <3>1, <3>2 DEF TableCloses
    <3> QED
      BY <2>2, <3>3
  <2> QED
    BY <2>5, <2>6, <2>9, <2>10
<1>11. CASE Audit
  <2> DEFINE S == {o \in Orders : AutoClose /\ o \in Phantoms}
  <2>1. \A o \in Orders \ S : rows'[o] = rows[o]
    BY <1>11, AuditIs
  <2>2. ASSUME NEW o \in S
        PROVE  /\ rows[o].st = "open"
               /\ \E pct \in GrossPct \cup {0} : pct \in Int /\ rows'[o] = Closed(rows[o], pct)
    BY <1>11, AuditIs
  <2>3. S \in SUBSET Orders
    OBVIOUS
  <2> HIDE DEF S
  <2>4. \A o \in S : rows'[o].st = "closed" /\ rows'[o].size = rows[o].size
    BY <1>1, <2>2, <2>3, ClosedIs
  <2>5. TableCloses(S)
    BY <2>1, <2>2, <2>3, <2>4 DEF TableCloses
  <2> QED
    BY <2>3, <2>5
<1> QED
  BY <1>4, <1>5, <1>6, <1>7, <1>8, <1>9, <1>10, <1>11 DEF Next, RunCycle, Process, Lifecycle, Trade

\* The best bankroll there was never falls; nothing but placing starts to record an order,
\* and the order being recorded keeps its size.
LEMMA RecordingKept ==
  ASSUME Types, Queue, Placing, \A o \in Orders : Books(o), [Next]_vars
  PROVE  /\ history.highest <= history'.highest
         /\ pc' = "record" => \/ PlaceOrder
                              \/ /\ pc = "record" /\ used' = used /\ rows' = rows
                                 /\ orders'[used].size = orders[used].size
<1>1. history.highest \in Nat /\ bankroll \in Nat
  BY DEF Types, TypeOK
<1>2. \A o \in Orders : orders[o] \in OrderRec
  BY DEF Types, TypeOK
<1>3. ASSUME UNCHANGED <<pc, used, rows, orders>> PROVE
             pc' = "record" => pc = "record" /\ used' = used /\ rows' = rows
                               /\ orders'[used].size = orders[used].size
  BY <1>3
<1> USE DEF At, Running, DbOpen, local, money, outside
<1>4. CASE UNCHANGED vars \/ SkipCycle \/ Pause \/ Restart \/ ShutdownCloseTracker
  <2>1. UNCHANGED <<pc, used, rows, orders, history>>
    BY <1>4 DEF vars, SkipCycle, Pause, Restart, ShutdownCloseTracker
  <2> QED
    BY <1>1, <1>3, <2>1
<1>5. CASE FlipSwitch \/ Midnight
  <2>1. UNCHANGED <<pc, used, rows, orders>>
    BY <1>5 DEF FlipSwitch, Midnight
  <2>2. history' = [history EXCEPT !.emergency = FALSE] \/ history' = [history EXCEPT !.today = 0]
    BY <1>5 DEF FlipSwitch, Midnight
  <2>3. history'.highest = history.highest
    BY <2>2 DEF Types
  <2> QED
    BY <1>1, <1>3, <2>1, <2>3
<1>6. CASE StartCycle \/ PlacingDone \/ EnterSizing \/ Scanned \/ Reconciled \/ Applied \/ ApplyEntry
           \/ ApplyExitFee \/ Record \/ EmergencyCancel \/ Expire \/ Audit
  <2>1. pc' # "record" /\ history' = history
    BY <1>6 DEF StartCycle, PlacingDone, EnterSizing, Scanned, Reconciled, Applied, ApplyEntry,
                ApplyExitFee, Record, EmergencyCancel, Expire, Audit
  <2> QED
    BY <1>1, <2>1
<1>7. CASE PlaceOrder
  <2>1. history' = history
    BY <1>7 DEF PlaceOrder
  <2> QED
    BY <1>1, <1>7, <2>1
<1>8. CASE \E p \in Orders : EntryFills(p) \/ VenueCancels(p) \/ LegTriggers(p) \/ LegExpires(p)
  <2>1. history' = history /\ pc' = "reconcile"
    BY <1>8, VisitedIs
  <2> QED
    BY <1>1, <2>1
<1>9. CASE ShutdownCancel
  <2>1. UNCHANGED <<pc, used, rows, history>>
    BY <1>9 DEF ShutdownCancel
  <2>2. pc = "record" => orders'[used].size = orders[used].size
    BY <1>9, CancelsAre DEF Placing
  <2> QED
    BY <1>1, <2>1, <2>2
<1>10. CASE ApplyClose \/ CloseRollsBack
  <2>1. pc' = "apply"
    BY <1>10 DEF ApplyClose, CloseRollsBack
  <2>2. history'.highest = history.highest
    <3>1. CASE ApplyClose
      <4>1. PICK n : history' = [history EXCEPT !.today = @ + n]
        BY <3>1 DEF ApplyClose
      <4> QED
        BY <4>1 DEF Types
    <3>2. CASE CloseRollsBack
      <4>1. PICK n : history' = [history EXCEPT !.lost = @ \cup n]
        BY <3>2 DEF CloseRollsBack
      <4> QED
        BY <4>1 DEF Types
    <3> QED
      BY <1>10, <3>1, <3>2
  <2> QED
    BY <1>1, <2>1, <2>2
<1>11. CASE EmergencyHalt \/ Fail
  <2>1. pc' = "idle"
    BY <1>11 DEF EmergencyHalt, Fail
  <2>2. history'.highest = history.highest
    <3>1. \/ history' = [history EXCEPT !.emergency = TRUE]
          \/ history' = [history EXCEPT !.disturbed = TRUE, !.lost = @ \cup Unwritten]
      BY <1>11 DEF EmergencyHalt, Fail
    <3> QED
      BY <3>1 DEF Types
  <2> QED
    BY <1>1, <2>1, <2>2
<1>12. CASE Exit \/ Crash
  <2>1. pc' = "idle"
    BY <1>12 DEF Exit, Crash, Forget
  <2>2. history'.highest = history.highest
    <3>1. PICK n : history' = [history EXCEPT !.disturbed = TRUE, !.emergency = FALSE, !.today = 0, !.lost = n]
      BY <1>12 DEF Exit, Crash, Forget
    <3> QED
      BY <3>1 DEF Types
  <2> QED
    BY <1>1, <2>1, <2>2
<1>13. CASE Account
  <2>1. pc' = "expire"
    BY <1>13 DEF Account
  <2>2. history.highest <= history'.highest
    <3> DEFINE top == LargerOf(history.highest, bankroll')
    <3>1. history' = [history EXCEPT !.highest = top] /\ bankroll' = LargerOf(0, Initial + Realised - Capital(positions))
      BY <1>13 DEF Account
    <3>2. history.highest <= top
      <4>1. bankroll' \in Nat
        BY TypesStep DEF Types, TypeOK
      <4> QED
        BY <1>1, <4>1 DEF LargerOf
    <3> HIDE DEF top
    <3>3. history'.highest = top
      BY <3>1 DEF Types
    <3> QED
      BY <3>2, <3>3
  <2> QED
    BY <2>1, <2>2
<1> QED
  BY <1>4, <1>5, <1>6, <1>7, <1>8, <1>9, <1>10, <1>11, <1>12, <1>13
  DEF Next, RunCycle, Process, Lifecycle, Trade
\* What is open, and about to be, stays below the portfolio limit.
LEMMA FitsStep ==
  ASSUME Types, Queue, Placing, Fits, \A o \in Orders : Books(o), [Next]_vars
  PROVE  Fits'
<1>1. Types'
  BY TypesStep
<1> DEFINE m == MaxPortfolioPct
           w == [o \in Orders |-> rows[o].size]
           top == history.highest
           cap == Capital(OpenRows)
<1>2. m \in Nat
  BY CycleAssumption
<1>3. /\ w \in [Orders -> Int] /\ \A o \in Orders : w[o] >= 0
      /\ w' \in [Orders -> Int] /\ \A o \in Orders : w'[o] >= 0
  <2>1. rows \in [Orders -> RowRec] /\ rows' \in [Orders -> RowRec]
    BY <1>1 DEF Types, TypeOK
  <2>2. ASSUME NEW r \in RowRec PROVE r.size \in Int /\ r.size >= 0
    BY DEF RowRec
  <2>3. \A o \in Orders : /\ rows[o].size \in Int /\ rows[o].size >= 0
                          /\ rows'[o].size \in Int /\ rows'[o].size >= 0
    BY <2>1, <2>2
  <2> QED
    BY <2>3
<1>4. OpenRows \in SUBSET Orders /\ OpenRows' \in SUBSET Orders
  BY DEF OpenRows
<1>5. cap = Total(w, OpenRows) /\ cap' = Total(w', OpenRows')
  BY DEF Capital
<1>6. cap \in Int /\ cap' \in Int
  BY <1>3, <1>4, <1>5, Totals
<1>7. /\ top \in Nat /\ top' \in Nat /\ bankroll \in Nat /\ bankroll <= top
      /\ m * top \in Int /\ m * top' \in Int /\ m * bankroll \in Int
  <2>1. top \in Nat /\ top' \in Nat /\ bankroll \in Nat /\ bankroll <= top
    BY <1>1 DEF Types, TypeOK
  <2> HIDE DEF m, top
  <2>2. \A i, j \in Nat : i * j \in Int
    OBVIOUS
  <2> QED
    BY <1>2, <2>1, <2>2
<1>8. top <= top' /\ m * top <= m * top' /\ m * bankroll <= m * top
  <2>1. top <= top' /\ top \in Int /\ top' \in Int /\ bankroll \in Int /\ bankroll <= top
    BY <1>7, RecordingKept
  <2>2. m * top <= m * top'
    <3> HIDE DEF m, top
    <3> QED
      BY <1>2, <2>1, ShareGrows
  <2>3. m * bankroll <= m * top
    <3> HIDE DEF m, top
    <3> QED
      BY <1>2, <2>1, ShareGrows
  <2> QED
    BY <2>1, <2>2, <2>3
<1>9. 100 * cap <= m * top
  BY DEF Fits, ExposureCapped
<1>10. SUFFICES /\ 100 * cap' <= m * top'
                /\ pc' = "record" => 100 * (orders'[used'].size + cap') <= m * top'
  BY DEF Fits, ExposureCapped
<1>11. CASE Record
  <2>1. /\ used \in Orders /\ rows[used] = NoRow /\ UNCHANGED <<orders, used, history>>
        /\ \A o \in Orders \ {used} : rows'[o] = rows[o]
        /\ rows'[used].st = "open" /\ rows'[used].size = orders[used].size
    BY <1>11, RecordedIs
  <2>2. pc = "record" /\ pc' = "place"
    BY <1>11 DEF Record, At
  <2>3. OpenRows' = OpenRows \cup {used} /\ used \notin OpenRows
    BY <2>1 DEF OpenRows, NoRow
  <2>4. w'[used] = orders[used].size /\ \A o \in OpenRows : w[o] = w'[o]
    BY <1>4, <2>1, <2>3
  <2>5. 100 * (orders[used].size + cap) <= m * top
    BY <2>2 DEF Fits
  <2> HIDE DEF w, cap, top, m
  <2>6. Total(w', OpenRows') = w'[used] + Total(w', OpenRows' \ {used})
    BY <1>3, <1>4, <2>3, Totals
  <2>7. OpenRows' \ {used} = OpenRows
    BY <2>3
  <2>8. Total(w, OpenRows) = Total(w', OpenRows)
    BY <1>3, <1>4, <2>4, SameTotal
  <2>9. cap' = orders[used].size + cap
    BY <1>5, <2>4, <2>6, <2>7, <2>8
  <2>10. top' = top
    BY <2>1 DEF top
  <2> QED
    BY <2>2, <2>5, <2>9, <2>10
<1>12. CASE \E S \in SUBSET Orders : TableCloses(S)
  <2>1. PICK S \in SUBSET Orders : TableCloses(S)
    BY <1>12
  <2>2. OpenRows' \in SUBSET OpenRows
    BY <2>1 DEF TableCloses, OpenRows
  <2>3. w' = w
    BY <2>1 DEF TableCloses
  <2>4. cap' <= cap
    <3> HIDE DEF w, cap
    <3>1. Total(w, OpenRows') <= Total(w, OpenRows)
      BY <1>3, <1>4, <2>2, LargerTotal
    <3> QED
      BY <1>5, <2>3, <3>1
  <2>5. 100 * cap' <= m * top'
    <3> HIDE DEF cap, top, m
    <3> QED
      BY <1>6, <1>7, <1>8, <1>9, <2>4
  <2>6. ASSUME pc' = "record" PROVE 100 * (orders'[used'].size + cap') <= m * top'
    <3>1. CASE PlaceOrder
      <4>1. /\ used' = used + 1
            /\ 100 * (orders'[used + 1].size + Capital(positions)) <= m * bankroll
            /\ orders'[used + 1].size \in Nat
        BY <3>1, PlacedIs
      <4>2. positions = OpenRows
        BY <3>1 DEF PlaceOrder, At, Placing
      <4> DEFINE n == orders'[used + 1].size
      <4>3. n \in Nat /\ 100 * (n + cap) <= m * bankroll /\ orders'[used'].size = n
        BY <4>1, <4>2
      <4> HIDE DEF n, cap, top, m
      <4> QED
        BY <1>6, <1>7, <1>8, <2>4, <4>3
    <3>2. CASE /\ pc = "record" /\ used' = used /\ rows' = rows
               /\ orders'[used].size = orders[used].size
      <4>1. orders[used].size \in Nat
        BY <3>2 DEF Placing, Types, TypeOK, OrderRec
      <4> DEFINE n == orders[used].size
      <4>2. n \in Nat /\ 100 * (n + cap) <= m * top /\ orders'[used'].size = n
        BY <3>2, <4>1 DEF Fits
      <4> HIDE DEF n, cap, top, m
      <4> QED
        BY <1>6, <1>7, <1>8, <2>4, <4>2
    <3> QED
      BY <2>6, <3>1, <3>2, RecordingKept
  <2> QED
    BY <2>5, <2>6
<1> QED
  BY <1>11, <1>12, TableStep

\* Profits of the day move the controller's loss with it, and orders are placed only while
\* it is above the limit.
LEMMA TodayStep ==
  ASSUME Types, Queue, Placing, Today, \A o \in Orders : Books(o), [Next]_vars
  PROVE  Today'
<1>1. /\ daily \in Int /\ history.today \in Int /\ DailyLimit \in Int /\ mult \in 0..100
      /\ dailyOld \in BOOLEAN
  BY CycleAssumption DEF Types, TypeOK
<1>2. /\ history.today = IF dailyOld THEN 0 ELSE daily
      /\ DailyLimit > 0 /\ ((pc = "place" /\ mult > 0) \/ pc = "record") => history.today > -DailyLimit
  BY DEF Today
<1>3. ASSUME UNCHANGED <<daily, dailyOld>>, history'.today = history.today,
             pc' \in {"place", "record"} => pc' = pc /\ mult' = mult
      PROVE  Today'
  BY <1>2, <1>3 DEF Today
<1> USE DEF At, Running, DbOpen, local, money, outside
<1>4. CASE UNCHANGED vars \/ SkipCycle \/ Pause \/ Restart \/ ShutdownCloseTracker
  BY <1>3, <1>4 DEF vars, SkipCycle, Pause, Restart, ShutdownCloseTracker
<1>5. CASE FlipSwitch
  <2>1. UNCHANGED <<daily, dailyOld, pc, mult>> /\ history' = [history EXCEPT !.emergency = FALSE]
    BY <1>5 DEF FlipSwitch
  <2>2. history'.today = history.today
    BY <2>1 DEF Types
  <2> QED
    BY <1>3, <2>1, <2>2
<1>6. CASE Midnight
  <2>1. dailyOld' = TRUE /\ history' = [history EXCEPT !.today = 0]
    BY <1>6 DEF Midnight
  <2>2. history'.today = 0
    BY <2>1 DEF Types
  <2> QED
    BY <1>1, <2>1, <2>2 DEF Today
<1>7. CASE StartCycle \/ PlacingDone \/ Scanned \/ Reconciled \/ Applied \/ ApplyEntry
           \/ ApplyExitFee \/ EmergencyCancel \/ Expire \/ Audit
  <2>1. pc' \notin {"place", "record"} /\ history' = history /\ UNCHANGED <<daily, dailyOld>>
    BY <1>7 DEF StartCycle, PlacingDone, Scanned, Reconciled, Applied, ApplyEntry,
                ApplyExitFee, EmergencyCancel, Expire, Audit
  <2> QED
    BY <1>3, <2>1
<1>8. CASE \E p \in Orders : EntryFills(p) \/ VenueCancels(p) \/ LegTriggers(p) \/ LegExpires(p)
  <2>1. history' = history /\ pc' = "reconcile"
    BY <1>8, VisitedIs
  <2>2. UNCHANGED <<daily, dailyOld>>
    BY <1>8 DEF EntryFills, VenueCancels, LegTriggers, LegExpires, Visit
  <2> QED
    BY <1>3, <2>1, <2>2
<1>9. CASE ShutdownCancel
  BY <1>3, <1>9 DEF ShutdownCancel
<1>10. CASE ApplyClose
  <2>1. pc' = "apply"
    BY <1>10 DEF ApplyClose
  <2>2. PICK n : RecordTradePnl(n) /\ history' = [history EXCEPT !.today = @ + n]
    BY <1>10 DEF ApplyClose
  <2>3. history'.today = history.today + n
    BY <2>2 DEF Types
  <2>4. CASE n = 0
    <3>1. UNCHANGED <<daily, dailyOld>> /\ history'.today = history.today
      BY <1>1, <2>2, <2>3, <2>4 DEF RecordTradePnl
    <3> QED
      BY <1>3, <2>1, <3>1
  <2>5. CASE n # 0
    <3>1. daily' = (IF dailyOld THEN 0 ELSE daily) + n /\ dailyOld' = FALSE
      BY <2>2, <2>5 DEF RecordTradePnl
    <3> QED
      BY <1>2, <2>1, <2>3, <3>1 DEF Today
  <2> QED
    BY <2>4, <2>5
<1>11. CASE CloseRollsBack
  <2>1. pc' = "apply" /\ UNCHANGED <<daily, dailyOld>>
    BY <1>11 DEF CloseRollsBack
  <2>2. PICK n : history' = [history EXCEPT !.lost = @ \cup n]
    BY <1>11 DEF CloseRollsBack
  <2>3. history'.today = history.today
    BY <2>2 DEF Types
  <2> QED
    BY <1>3, <2>1, <2>3
<1>12. CASE EmergencyHalt \/ Fail
  <2>1. pc' = "idle" /\ UNCHANGED <<daily, dailyOld>>
    BY <1>12 DEF EmergencyHalt, Fail
  <2>2. \/ history' = [history EXCEPT !.emergency = TRUE]
        \/ history' = [history EXCEPT !.disturbed = TRUE, !.lost = @ \cup Unwritten]
    BY <1>12 DEF EmergencyHalt, Fail
  <2>3. history'.today = history.today
    BY <2>2 DEF Types
  <2> QED
    BY <1>3, <2>1, <2>3
<1>13. CASE Exit \/ Crash
  <2>1. pc' = "idle" /\ daily' = 0 /\ dailyOld' = FALSE
    BY <1>13 DEF Exit, Crash, Forget
  <2>2. PICK n : history' = [history EXCEPT !.disturbed = TRUE, !.emergency = FALSE, !.today = 0, !.lost = n]
    BY <1>13 DEF Exit, Crash, Forget
  <2>3. history'.today = 0
    BY <2>2 DEF Types
  <2> QED
    BY <2>1, <2>3 DEF Today
<1>14. CASE Account
  <2>1. pc' = "expire" /\ UNCHANGED <<daily, dailyOld>>
    BY <1>14 DEF Account
  <2>2. PICK n : history' = [history EXCEPT !.highest = n]
    BY <1>14 DEF Account
  <2>3. history'.today = history.today
    BY <2>2 DEF Types
  <2> QED
    BY <1>3, <2>1, <2>3
<1>15. CASE EnterSizing
  <2>1. UNCHANGED <<daily, dailyOld, history>>
    BY <1>15 DEF EnterSizing
  <2>2. pc' \notin {"place", "record"} \/ (pc' = "place" /\ mult' = Multiplier)
    BY <1>15 DEF EnterSizing
  <2>3. CASE pc' \notin {"place", "record"}
    BY <1>3, <2>1, <2>3
  <2>4. CASE pc' = "place" /\ mult' = Multiplier
    <3>1. DailyLimitHit => Multiplier = 0
      BY MultiplierIs, CycleAssumption DEF Types, TypeOK
    <3>2. mult' > 0 => daily > -DailyLimit
      BY <1>1, <2>4, <3>1 DEF DailyLimitHit
    <3> QED
      BY <1>1, <1>2, <2>1, <2>4, <3>2 DEF Today
  <2> QED
    BY <2>2, <2>3, <2>4
<1>16. CASE PlaceOrder
  <2>1. pc = "place" /\ UNCHANGED <<daily, dailyOld, history>> /\ pc' = "record"
    BY <1>16 DEF PlaceOrder
  <2>2. mult > 0
    BY <1>16, PlacedIs
  <2> QED
    BY <1>2, <2>1, <2>2 DEF Today
<1>17. CASE Record
  <2>1. pc = "record" /\ UNCHANGED <<daily, dailyOld, history>>
    BY <1>17 DEF Record
  <2> QED
    BY <1>2, <2>1 DEF Today
<1> QED
  BY <1>4, <1>5, <1>6, <1>7, <1>8, <1>9, <1>10, <1>11, <1>12, <1>13, <1>14, <1>15, <1>16, <1>17
  DEF Next, RunCycle, Process, Lifecycle, Trade

-----------------------------------------------------------------------------
(* The theorems.                                                           *)

\* A fresh process starts with an empty table and nothing pending.
LEMMA CycleInit == Init => CycleInv
<1> SUFFICES ASSUME Init PROVE CycleInv
  OBVIOUS
<1>1. /\ NOrders \in Nat /\ Initial \in Nat \ {0} /\ MaxFailures \in Nat \ {0} /\ Budget \in Nat
      /\ DryRunSettings \subseteq BOOLEAN /\ MaxPortfolioPct \in Nat /\ DailyLimit \in Nat
  BY CycleAssumption
<1>2. /\ proc = "up" /\ pc = "idle" /\ orders = [o \in Orders |-> NoOrder] /\ used = 0
      /\ turn = 0 /\ events = <<>> /\ positions = {} /\ mult = 100
      /\ bankroll = Initial /\ peak = Initial /\ daily = 0 /\ dailyOld = FALSE /\ failures = 0
      /\ rows = [o \in Orders |-> NoRow] /\ killed = FALSE /\ history = NewHistory
      /\ mode \in {ModeOf(s, f) : s \in DryRunSettings, f \in Flags}
  BY DEF Init
<1>3. Types
  <2>1. NoOrder \in OrderRec /\ NoRow \in RowRec
    BY DEF NoOrder, OrderRec, NoRow, RowRec, Statuses
  <2>2. mode \in [executor: BOOLEAN, agent: BOOLEAN]
    <3>1. \A s, f : s \in BOOLEAN => ModeOf(s, f) \in [executor: BOOLEAN, agent: BOOLEAN]
      BY DEF ModeOf
    <3>2. PICK s \in DryRunSettings, f \in Flags : mode = ModeOf(s, f)
      BY <1>2
    <3> QED
      BY <1>1, <3>1, <3>2
  <2>3. orders \in [Orders -> OrderRec] /\ rows \in [Orders -> RowRec]
    BY <1>2, <2>1
  <2>4. history \in [highest: Nat, disturbed: BOOLEAN, emergency: BOOLEAN,
                  lost: SUBSET Orders, today: Int] /\ history.highest = Initial
    BY <1>1, <1>2 DEF NewHistory
  <2>5. events \in Seq(Orders \X {"entry", "exit"}) /\ DOMAIN events = {}
    BY <1>2
  <2>6. /\ proc \in {"up", "stopping", "closed", "down"} /\ pc \in Stages
        /\ used \in 0..NOrders /\ turn \in Nat /\ mult \in 0..100
        /\ positions \subseteq Orders
        /\ bankroll \in Nat /\ peak \in Nat /\ daily \in Int /\ failures \in 0..MaxFailures
    BY <1>1, <1>2 DEF Stages
  <2>7. {dailyOld, killed} \subseteq BOOLEAN
    BY <1>2
  <2>8. /\ bankroll <= history.highest /\ Initial <= history.highest /\ Initial <= peak
        /\ pc = "idle"
    BY <1>1, <1>2, <2>4
  <2>9. TypeOK
    BY <2>2, <2>3, <2>5, <2>6, <2>7 DEF TypeOK
  <2> QED
    BY <2>4, <2>5, <2>8, <2>9 DEF Types
<1>4. Queue /\ Placing
  BY <1>2 DEF Queue, Placing, Ordered
<1>5. Today
  BY <1>2 DEF Today, NewHistory
<1>6. Fits
  <2>1. OpenRows = {}
    BY <1>2 DEF OpenRows, NoRow
  <2>2. [o \in Orders |-> rows[o].size] \in [Orders -> Int]
    BY <1>3 DEF Types, TypeOK, RowRec
  <2>3. Capital(OpenRows) = 0
    BY <2>1, <2>2, Totals DEF Capital
  <2>4. MaxPortfolioPct * history.highest >= 0
    BY <1>1, <1>3 DEF Types
  <2> QED
    BY <1>2, <2>3, <2>4 DEF Fits, ExposureCapped
<1>7. ASSUME NEW o \in Orders PROVE Books(o) /\ Fees(o)
  <2>1. orders[o] = NoOrder /\ rows[o] = NoRow /\ ~ (o <= used)
    BY <1>2 DEF Orders
  <2>2. ~ Known(o) /\ orders[o].leg = "none" /\ rows[o].st = "none"
    BY <2>1 DEF Known, NoOrder, NoRow
  <2>3. \A kind : ~ Waiting(o, kind)
    BY <1>2 DEF Waiting, Listed
  <2> QED
    BY <2>1, <2>2, <2>3 DEF Books, Fees, NoRow
<1> QED
  BY <1>3, <1>4, <1>5, <1>6, <1>7 DEF CycleInv

\* Every step of the cycle, and of what happens around it, keeps the invariant.
LEMMA CycleStep == CycleInv /\ [Next]_vars => CycleInv'
<1> SUFFICES ASSUME CycleInv, [Next]_vars PROVE CycleInv'
  OBVIOUS
<1>1. Types /\ Queue /\ Placing /\ Fits /\ Today /\ \A o \in Orders : Books(o) /\ Fees(o)
  BY DEF CycleInv
<1>2. Types' /\ Queue' /\ Placing' /\ Fits' /\ Today'
  BY <1>1, TypesStep, QueueStep, PlacingStep, FitsStep, TodayStep
<1>3. \A o \in Orders : Books(o)' /\ Fees(o)'
  BY <1>1, BooksStep, FeesStep
<1> QED
  BY <1>2, <1>3 DEF CycleInv

\* The invariant holds of every run of the trading cycle.
THEOREM CycleInvariant == Spec => []CycleInv
BY CycleInit, CycleStep, PTL DEF Spec

\* Every variable of the cycle keeps its type; the count of failures stays at the limit at
\* which the loop pauses (run_forever), the multiplier is a percentage.
THEOREM CycleTypeOK == Spec => []TypeOK
<1>1. CycleInv => TypeOK
  BY DEF CycleInv, Types
<1> QED
  BY <1>1, CycleInvariant, PTL

\* The trades table follows the executor: an order whose bracket sold has a closed trade
\* and only such an order has one, however events, failures, restarts and audits fall.
THEOREM CycleBooksAgree == Spec => []BooksAgree
<1>1. CycleInv => BooksAgree
  <2> SUFFICES ASSUME CycleInv, NEW o \in Orders \ (history.lost \cup Unwritten)
               PROVE  (orders[o].leg = "sold") <=> (rows[o].st = "closed")
    BY DEF BooksAgree
  <2>1. Books(o) /\ o \notin history.lost
    BY DEF CycleInv
  <2>2. ~ Waiting(o, "exit")
    BY DEF Unwritten, Waiting, Listed
  <2>3. rows[o].st = "closed" => o <= used
    BY <2>1 DEF Books, NoRow, CycleInv, Types, TypeOK, Orders
  <2> QED
    BY <2>1, <2>2, <2>3 DEF Books
<1> QED
  BY <1>1, CycleInvariant, PTL

\* No trade is charged a second entry fee or a second exit fee (record_fee adds to what is
\* there), even when a fee rounds to nothing and the test for an earlier one cannot tell.
THEOREM CycleFeesOncePerSide == Spec => []FeesOncePerSide
<1>1. CycleInv => FeesOncePerSide
  BY DEF CycleInv, Fees, FeesOncePerSide
<1> QED
  BY <1>1, CycleInvariant, PTL

\* The open trades together never exceed the portfolio limit of the best bankroll there
\* was (calculate_position), for every limit, size and price.
THEOREM CycleExposureCapped == Spec => []ExposureCapped
<1>1. CycleInv => ExposureCapped
  BY DEF CycleInv, Fits
<1> QED
  BY <1>1, CycleInvariant, PTL

\* Under a limit that is a loss, no trade is opened on a day after that day's realised loss
\* reached it (daily_limit_hit); a limit of zero would compare with yesterday's count.
THEOREM CycleDailyLossHalts == ASSUME DailyLimit > 0 PROVE Spec => DailyLossHalts
<1>1. CycleInv /\ [Next]_vars =>
        [\A o \in Orders : rows[o].st = "none" /\ rows'[o].st = "open"
           => history.today > -DailyLimit]_vars
  <2> SUFFICES ASSUME CycleInv, [Next]_vars, NEW o \in Orders,
                      rows[o].st = "none", rows'[o].st = "open"
               PROVE  history.today > -DailyLimit
    OBVIOUS
  <2>1. Types /\ Queue /\ Placing /\ Today /\ \A p \in Orders : Books(p)
    BY DEF CycleInv
  <2>2. ASSUME NEW S \in SUBSET Orders, TableCloses(S) PROVE FALSE
    <3>1. CASE o \in S
      BY <2>2, <3>1 DEF TableCloses
    <3>2. CASE o \notin S
      BY <2>2, <3>2 DEF TableCloses
    <3> QED
      BY <3>1, <3>2
  <2>3. Record
    BY <2>1, <2>2, TableStep
  <2>4. pc = "record"
    BY <2>3 DEF Record, At
  <2> QED
    BY <2>1, <2>4 DEF Today
<1> QED
  BY <1>1, CycleInvariant, PTL DEF Spec, DailyLossHalts

\* The trades table implements the ledger (module TradeLedger): a step of the cycle records
\* a trade for an order that has none, closes trades that are open, or leaves the ledger.
THEOREM CycleImplementsLedger == Spec => LedgerSpec
<1>1. Init => Ledger!Init
  BY DEF Init, Ledger!Init, NoRow
<1>2. CycleInv /\ [Next]_vars => [Ledger!Next]_<<[o \in Orders |-> rows[o].st], [o \in Orders |-> rows[o].pnl]>>
  <2> SUFFICES ASSUME CycleInv, [Next]_vars
               PROVE  Ledger!Next
    OBVIOUS
  <2> DEFINE trade == [o \in Orders |-> rows[o].st]
             profit == [o \in Orders |-> rows[o].pnl]
  <2>1. Types /\ Queue /\ Placing /\ \A p \in Orders : Books(p)
    BY DEF CycleInv
  <2>2. CASE Record
    <3>1. /\ used \in Orders /\ rows[used] = NoRow
          /\ \A o \in Orders \ {used} : rows'[o] = rows[o]
          /\ rows'[used].st = "open" /\ rows'[used].pnl = 0
      BY <2>1, <2>2, RecordedIs
    <3>2. rows[used].st = "none" /\ rows[used].pnl = 0
      BY <3>1 DEF NoRow
    <3>3. \A o \in Orders : rows'[o].st = IF o = used THEN "open" ELSE rows[o].st
      BY <3>1
    <3>4. \A o \in Orders : rows'[o].pnl = rows[o].pnl
      BY <3>1, <3>2
    <3>5. [o \in Orders |-> rows'[o].st] = [o \in Orders |-> IF o = used THEN "open" ELSE rows[o].st]
      BY <3>3
    <3>6. trade' = [trade EXCEPT ![used] = "open"]
      BY <3>1, <3>5
    <3>7. profit' = profit
      BY <3>4
    <3>8. trade[used] = "none"
      BY <3>1, <3>2
    <3>9. PICK o \in Orders : o = used
      BY <3>1
    <3>10. Ledger!Record(o)
      BY <3>6, <3>7, <3>8, <3>9 DEF Ledger!Record
    <3> QED
      BY <3>10 DEF Ledger!Next
  <2>3. CASE \E S \in SUBSET Orders : TableCloses(S)
    <3>1. PICK S \in SUBSET Orders : TableCloses(S)
      BY <2>3
    <3>2. /\ \A o \in S : trade[o] = "open"
          /\ trade' = [o \in Orders |-> IF o \in S THEN "closed" ELSE trade[o]]
          /\ \A o \in Orders \ S : profit'[o] = profit[o]
      BY <3>1 DEF TableCloses
    <3>3. Ledger!Close(S)
      BY <3>2 DEF Ledger!Close
    <3>4. \E R \in SUBSET Orders : Ledger!Close(R)
      BY <3>3
    <3> QED
      BY <3>4 DEF Ledger!Next
  <2> QED
    BY <2>1, <2>2, <2>3, TableStep
<1> QED
  BY <1>1, <1>2, CycleInvariant, PTL DEF Spec, LedgerSpec, Ledger!Spec

-----------------------------------------------------------------------------
(* The distance to the emergency threshold.                                *)
(*                                                                         *)
(* Floor is what the bankroll would be if every open trade were lost with  *)
(* both of its fees.  Only recording a trade lowers it, and a cycle places *)
(* only as much as the multiplier it fixed at the start allows.            *)

\* The fees of all that may be open, per ten thousand of the best bankroll.
Charges == 2 * FeePct * MaxPortfolioPct

\* What one order may take, its fees included, and all orders of a cycle: per ten thousand.
PerOrder == MaxPositionPct * (100 + 2 * FeePct)
PerCycle == TopN * PerOrder

\* The tiers are further apart than what one cycle can commit or lose, and a position loses
\* no more than was paid for it.
EmergencyMargin ==
  /\ EmergencyPct <= 100
  /\ \A pct \in GrossPct : pct >= -100
  /\ 100 * StopPct + Charges < 100 * EmergencyPct
  /\ 100 * ReducePct + PerCycle + Charges < 100 * EmergencyPct

BothFees(n) == 2 * FeeOn(n)

\* What a row adds to the bankroll in the end, at worst.
Worth(r) == CASE r.st = "closed" -> r.pnl
              [] r.st = "open" -> -(r.size + BothFees(r.size))
              [] OTHER -> 0

Floor == Initial + Total([o \in Orders |-> Worth(rows[o])], Orders)

\* A row has the size of its order, neither has more filled than that, and what was charged
\* is at most a fee on the size for each side that was.
Sized(o) ==
  /\ Known(o) /\ rows[o].st # "none" => rows[o].size = orders[o].size
  /\ orders[o].filled <= orders[o].size
  /\ rows[o].filled <= rows[o].size
  /\ rows[o].fee <= (IF rows[o].entryFees > 0 THEN FeeOn(rows[o].size) ELSE 0)
                    + (IF rows[o].exitFees > 0 THEN FeeOn(rows[o].size) ELSE 0)

\* The multiplier a cycle fixed when its bankroll was b.
Braked(b) ==
  mult > 0 =>
    /\ 100 * (peak - b) < StopPct * peak
    /\ 100 * (peak - b) >= ReducePct * peak =>
         mult * ((StopPct - ReducePct) * peak) <= 100 * (StopPct * peak - 100 * (peak - b))

\* How many of the cycle's orders are in the table.
Recorded == IF pc = "record" THEN turn - 1 ELSE turn

\* At the peak p and the bankroll b, the multiplier is u and k recorded orders sank the floor to F.
Committed(p, b, F, u, k) ==
  /\ 100 * (p - b) < StopPct * p
  /\ 100 * (p - b) >= ReducePct * p =>
       u * ((StopPct - ReducePct) * p) <= 100 * (StopPct * p - 100 * (p - b))
  /\ 100 * (10000 * (b - F)) <= 100 * (Charges * p) + k * (PerOrder * (u * p))

\* Since sizing began, at bankroll b, the floor sank by at most what was recorded.
PlacedFrom(b) ==
  /\ bankroll <= b /\ b <= peak /\ Braked(b)
  /\ 100 * (10000 * (b - Floor)) <= 100 * (Charges * peak) + Recorded * (PerOrder * (mult * peak))

Calm ==
  ~ history.disturbed =>
    /\ ~ history.emergency /\ pc # "halt"
    /\ history.highest <= peak /\ bankroll <= peak
    /\ 100 * (peak - Floor) < EmergencyPct * peak
    /\ pc \in {"apply", "close", "size"} => turn = 0
    /\ pc = "account" => positions = OpenRows
    /\ pc \notin {"place", "record", "account"} =>
         /\ 100 * (peak - bankroll) < EmergencyPct * peak
         /\ 10000 * (bankroll - Floor) <= Charges * peak
    /\ pc \in {"place", "record"} => turn <= TopN /\ \E b \in 0..peak : PlacedFrom(b)
    /\ pc = "record" => /\ turn > 0
                        /\ mult > 0
                        /\ 10000 * orders[used].size <= MaxPositionPct * (mult * peak)

CalmInv == CycleInv /\ Calm /\ \A o \in Orders : Sized(o)

-----------------------------------------------------------------------------
(* The fees and the floor.                                                 *)

\* A fee is a share of the size, rounded down, and grows with it (taker_fee_rate).
LEMMA FeeIs ==
  ASSUME NEW n \in Nat
  PROVE  /\ FeeOn(n) \in Nat /\ 100 * FeeOn(n) <= n * FeePct
         /\ \A k \in Nat : k <= n => FeeOn(k) <= FeeOn(n)
<1>1. FeePct \in Nat
  BY CycleAssumption
<1>2. \A a, b \in Nat : a <= b => a \div 100 <= b \div 100
  OBVIOUS
<1>3. \A k \in Nat : k * FeePct \in Nat
  BY <1>1, Product
<1>4. ASSUME NEW k \in Nat, k <= n PROVE FeeOn(k) <= FeeOn(n)
  <2> DEFINE a == k * FeePct
             b == n * FeePct
  <2>1. a <= b
    <3>1. FeePct * k <= FeePct * n
      BY <1>1, <1>4, ShareGrows
    <3> QED
      BY <1>1, <3>1
  <2>2. a \in Nat /\ b \in Nat
    BY <1>3
  <2>3. a \div 100 <= b \div 100
    <3> HIDE DEF a, b
    <3> QED
      BY <1>2, <2>1, <2>2
  <2> QED
    BY <2>3 DEF FeeOn
<1>5. FeeOn(n) \in Nat
  BY FeeTyped
<1>6. 100 * FeeOn(n) <= n * FeePct
  <2> DEFINE b == n * FeePct
  <2>1. b \in Nat
    BY <1>3
  <2>2. 100 * (b \div 100) <= b
    <3> HIDE DEF b
    <3> QED
      BY <2>1, Percent
  <2> QED
    BY <2>2 DEF FeeOn
<1> QED
  BY <1>4, <1>5, <1>6

\* Amounts that are not smaller have a total that is not smaller.
LEMMA MoreTotal ==
  ASSUME NEW v \in [Orders -> Int], NEW w \in [Orders -> Int],
         \A o \in Orders : v[o] <= w[o]
  PROVE  Total(v, Orders) <= Total(w, Orders)
<1> DEFINE T == {s \in SUBSET Orders : Total(v, s) <= Total(w, s)}
<1>1. ASSUME NEW s \in SUBSET Orders, \A x \in s : s \ {x} \in T PROVE s \in T
  <2>1. CASE s = {}
    BY <2>1, Totals
  <2>2. CASE s # {}
    <3>1. PICK x \in s : TRUE
      BY <2>2
    <3>2. Total(v, s) = v[x] + Total(v, s \ {x}) /\ Total(w, s) = w[x] + Total(w, s \ {x})
      BY Totals
    <3>3. Total(v, s \ {x}) \in Int /\ Total(w, s \ {x}) \in Int /\ v[x] \in Int /\ w[x] \in Int
      BY Totals
    <3>4. Total(v, s \ {x}) <= Total(w, s \ {x}) /\ v[x] <= w[x]
      BY <1>1, <3>1
    <3>5. Total(v, s) <= Total(w, s)
      BY <3>2, <3>3, <3>4
    <3> QED
      BY <3>5
  <2> QED
    BY <2>1, <2>2
<1> HIDE DEF T
<1>2. Orders \in T
  BY <1>1, OrdersFinite, SetBySet
<1> QED
  BY <1>2 DEF T

\* The order taken out of a part of the orders.
LEMMA TakeOut ==
  ASSUME NEW w \in [Orders -> Int], NEW s \in SUBSET Orders, NEW x \in s, NEW A \in SUBSET Orders
  PROVE  /\ Total(w, s \cap A) = (IF x \in A THEN w[x] ELSE 0) + Total(w, (s \ {x}) \cap A)
         /\ Total(w, s \cap A) \in Int /\ Total(w, (s \ {x}) \cap A) \in Int
<1> DEFINE c == s \cap A
<1>1. c \in SUBSET Orders /\ (s \ {x}) \cap A = c \ {x} /\ (x \in c <=> x \in A)
      /\ (x \notin c => c \ {x} = c)
  OBVIOUS
<1> HIDE DEF c
<1>2. Total(w, c) \in Int /\ Total(w, c \ {x}) \in Int
  BY <1>1, Totals
<1>3. CASE x \in A
  <2>1. Total(w, c) = w[x] + Total(w, c \ {x})
    BY <1>1, <1>3, Totals
  <2> QED
    BY <1>1, <1>2, <1>3, <2>1 DEF c
<1>4. CASE x \notin A
  <2>1. Total(w, c) = 0 + Total(w, c \ {x})
    <3>1. c \ {x} = c
      BY <1>1, <1>4
    <3>2. \A n \in Int : n = 0 + n
      OBVIOUS
    <3> QED
      BY <1>2, <3>1, <3>2
  <2> QED
    BY <1>1, <1>2, <1>4, <2>1 DEF c
<1> QED
  BY <1>3, <1>4

Worths == [o \in Orders |-> Worth(rows[o])]
Cash == Initial + Realised - Capital(OpenRows)

\* What a row adds is a number: its profit, or what it would lose.
LEMMA WorthIs ==
  ASSUME NEW r \in RowRec
  PROVE  /\ Worth(r) \in Int
         /\ r.st = "closed" => Worth(r) = r.pnl
         /\ r.st = "open" => Worth(r) = -(r.size + BothFees(r.size))
         /\ r.st = "none" => Worth(r) = 0
         /\ BothFees(r.size) \in Nat
<1>1. r.size \in Nat /\ r.pnl \in Int /\ r.st \in {"none", "open", "closed"}
  BY DEF RowRec
<1>2. BothFees(r.size) \in Nat
  BY <1>1, FeeIs DEF BothFees
<1> QED
  BY <1>1, <1>2 DEF Worth

\* The floor is the bankroll computed from the trades table less the fees of what is open,
\* and those are a share of the portfolio limit.
LEMMA FloorIs ==
  ASSUME Types, ExposureCapped
  PROVE  /\ Floor \in Int /\ Cash \in Int /\ Floor <= Cash
         /\ 10000 * (Cash - Floor) <= Charges * history.highest
<1> DEFINE pnl == [o \in Orders |-> rows[o].pnl]
           size == [o \in Orders |-> rows[o].size]
           both == [o \in Orders |-> BothFees(rows[o].size)]
           worth == Worths
           C == ClosedRows
           O == OpenRows
           k == 2 * FeePct
<1>1. \A o \in Orders : rows[o] \in RowRec
  BY DEF Types, TypeOK
<1>2. /\ pnl \in [Orders -> Int] /\ size \in [Orders -> Int] /\ both \in [Orders -> Int]
      /\ worth \in [Orders -> Int]
      /\ \A o \in Orders : both[o] >= 0 /\ 100 * both[o] <= k * size[o]
  <2>1. ASSUME NEW o \in Orders
        PROVE  /\ rows[o].pnl \in Int /\ rows[o].size \in Nat /\ Worth(rows[o]) \in Int
               /\ BothFees(rows[o].size) \in Nat
               /\ 100 * BothFees(rows[o].size) <= k * rows[o].size
    <3>1. rows[o].pnl \in Int /\ rows[o].size \in Nat
      BY <1>1 DEF RowRec
    <3>2. Worth(rows[o]) \in Int /\ BothFees(rows[o].size) \in Nat
      BY <1>1, WorthIs
    <3> DEFINE n == rows[o].size
    <3>3. FeeOn(n) \in Nat /\ 100 * FeeOn(n) <= n * FeePct
      BY <3>1, FeeIs
    <3>4. FeePct \in Nat
      BY CycleAssumption
    <3>5. 100 * BothFees(n) <= k * n
      <4>1. k * n = 2 * (n * FeePct) /\ BothFees(n) = 2 * FeeOn(n) /\ n * FeePct \in Nat
        BY <3>1, <3>4, Product DEF BothFees
      <4> HIDE DEF n, k
      <4> DEFINE f == FeeOn(n)
                 x == n * FeePct
                 y == k * n
      <4>2. f \in Nat /\ 100 * f <= x /\ x \in Nat /\ y = 2 * x
        BY <3>3, <4>1
      <4>3. 100 * (2 * f) <= y
        <5> HIDE DEF f, x, y
        <5> QED
          BY <4>2
      <4> QED
        BY <4>1, <4>3
    <3> QED
      BY <3>1, <3>2, <3>5
  <2> QED
    BY <2>1 DEF Worths
<1>3. k \in Nat
  BY CycleAssumption
<1>4. C \in SUBSET Orders /\ O \in SUBSET Orders
  BY DEF ClosedRows, OpenRows
<1>5. \A o \in Orders : /\ o \in C => o \notin O /\ worth[o] = pnl[o]
                        /\ o \in O => worth[o] = -(size[o] + both[o])
                        /\ o \notin O /\ o \notin C => worth[o] = 0
  <2> SUFFICES ASSUME NEW o \in Orders
               PROVE  /\ o \in C => o \notin O /\ worth[o] = pnl[o]
                      /\ o \in O => worth[o] = -(size[o] + both[o])
                      /\ o \notin O /\ o \notin C => worth[o] = 0
    OBVIOUS
  <2>1. rows[o] \in RowRec
    BY <1>1
  <2>2. /\ o \in C => rows[o].st = "closed"
        /\ o \in O => rows[o].st = "open"
        /\ o \notin O /\ o \notin C => rows[o].st = "none"
    BY <2>1 DEF ClosedRows, OpenRows, RowRec
  <2>3. worth[o] = Worth(rows[o])
    BY DEF Worths
  <2> QED
    BY <2>1, <2>2, <2>3, WorthIs
<1> HIDE DEF pnl, size, both, worth, C, O, k
<1> DEFINE T == {s \in SUBSET Orders :
                   Total(worth, s) = (Total(pnl, s \cap C) - Total(size, s \cap O)) - Total(both, s \cap O)}
           U == {s \in SUBSET Orders : Total(both, s) >= 0 /\ 100 * Total(both, s) <= k * Total(size, s)}
<1>6. ASSUME NEW s \in SUBSET Orders, \A x \in s : s \ {x} \in T PROVE s \in T
  <2>1. CASE s = {}
    <3>1. s \cap C = {} /\ s \cap O = {}
      BY <2>1
    <3> QED
      BY <1>2, <2>1, <3>1, Totals
  <2>2. CASE s # {}
    <3>1. PICK x \in s : TRUE
      BY <2>2
    <3> DEFINE dp == IF x \in C THEN pnl[x] ELSE 0
               ds == IF x \in O THEN size[x] ELSE 0
               db == IF x \in O THEN both[x] ELSE 0
               r == s \ {x}
    <3>2. /\ Total(pnl, s \cap C) = dp + Total(pnl, r \cap C)
          /\ Total(pnl, s \cap C) \in Int /\ Total(pnl, r \cap C) \in Int
      BY <1>2, <1>4, TakeOut
    <3>3. /\ Total(size, s \cap O) = ds + Total(size, r \cap O)
          /\ Total(size, s \cap O) \in Int /\ Total(size, r \cap O) \in Int
      BY <1>2, <1>4, TakeOut
    <3>4. /\ Total(both, s \cap O) = db + Total(both, r \cap O)
          /\ Total(both, s \cap O) \in Int /\ Total(both, r \cap O) \in Int
      BY <1>2, <1>4, TakeOut
    <3>5. /\ Total(worth, s) = worth[x] + Total(worth, r)
          /\ Total(worth, s) \in Int /\ Total(worth, r) \in Int
      BY <1>2, Totals
    <3>6. Total(worth, r) = (Total(pnl, r \cap C) - Total(size, r \cap O)) - Total(both, r \cap O)
      BY <1>6, <3>1
    <3>7. worth[x] = (dp - ds) - db /\ dp \in Int /\ ds \in Int /\ db \in Int
      BY <1>2, <1>5
    <3> HIDE DEF dp, ds, db, r
    <3> DEFINE a == Total(pnl, r \cap C)
               b == Total(size, r \cap O)
               c == Total(both, r \cap O)
               e == Total(worth, r)
    <3>8. worth[x] + e = ((dp + a) - (ds + b)) - (db + c)
      <4>1. a \in Int /\ b \in Int /\ c \in Int /\ e \in Int /\ e = (a - b) - c
        BY <3>2, <3>3, <3>4, <3>5, <3>6
      <4> HIDE DEF a, b, c, e
      <4> QED
        BY <3>7, <4>1
    <3> QED
      BY <3>2, <3>3, <3>4, <3>5, <3>8
  <2> QED
    BY <2>1, <2>2
<1>7. ASSUME NEW s \in SUBSET Orders, \A x \in s : s \ {x} \in U PROVE s \in U
  <2>1. CASE s = {}
    <3>1. Total(both, s) = 0 /\ Total(size, s) = 0
      BY <1>2, <2>1, Totals
    <3> QED
      BY <1>3, <3>1
  <2>2. CASE s # {}
    <3>1. PICK x \in s : TRUE
      BY <2>2
    <3>2. Total(both, s) = both[x] + Total(both, s \ {x}) /\ Total(size, s) = size[x] + Total(size, s \ {x})
      BY <1>2, Totals
    <3>3. /\ Total(both, s \ {x}) \in Int /\ Total(size, s \ {x}) \in Int
          /\ both[x] \in Int /\ size[x] \in Int
      BY <1>2, Totals
    <3>4. Total(both, s \ {x}) >= 0 /\ 100 * Total(both, s \ {x}) <= k * Total(size, s \ {x})
      BY <1>7, <3>1
    <3> DEFINE a == both[x]
               b == size[x]
               v == Total(both, s \ {x})
               w == Total(size, s \ {x})
    <3>5. /\ a \in Int /\ b \in Int /\ v \in Int /\ w \in Int
          /\ a >= 0 /\ v >= 0 /\ 100 * a <= k * b /\ 100 * v <= k * w
      BY <1>2, <3>3, <3>4
    <3>6. a + v >= 0 /\ 100 * (a + v) <= k * (b + w)
      <4> HIDE DEF a, b, v, w
      <4>1. k * (b + w) = k * b + k * w /\ k * b \in Int /\ k * w \in Int
        BY <1>3, <3>5
      <4> QED
        BY <3>5, <4>1
    <3> QED
      BY <3>2, <3>6
  <2> QED
    BY <2>1, <2>2
<1> HIDE DEF T, U
<1>8. Orders \in T /\ O \in U
  <2>1. \A s \in SUBSET Orders : s \in T
    BY <1>6, OrdersFinite, SetBySet
  <2>2. \A s \in SUBSET Orders : s \in U
    BY <1>7, OrdersFinite, SetBySet
  <2> QED
    BY <1>4, <2>1, <2>2
<1>9. /\ Total(worth, Orders) = (Total(pnl, C) - Total(size, O)) - Total(both, O)
      /\ Total(both, O) >= 0 /\ 100 * Total(both, O) <= k * Total(size, O)
  <2>1. Orders \cap C = C /\ Orders \cap O = O
    BY <1>4
  <2> QED
    BY <1>8, <2>1 DEF T, U
<1>10. /\ Total(worth, Orders) \in Int /\ Total(pnl, C) \in Int
       /\ Total(size, O) \in Int /\ Total(both, O) \in Int
  BY <1>2, <1>4, Totals
<1>11. Floor = Initial + Total(worth, Orders) /\ Cash = Initial + (Total(pnl, C) - Total(size, O))
  <2>1. Floor = Initial + Total(worth, Orders)
    BY DEF Floor, Worths, worth
  <2>2. Realised = Total(pnl, C)
    BY DEF Realised, pnl, C
  <2>3. Capital(OpenRows) = Total(size, O)
    BY DEF Capital, size, O
  <2>4. Cash = Initial + (Realised - Capital(OpenRows))
    BY DEF Cash
  <2> QED
    BY ONLY <2>1, <2>2, <2>3, <2>4
<1>12. Initial \in Int
  BY CycleAssumption
<1>13. Floor \in Int /\ Cash \in Int /\ Floor <= Cash /\ Cash - Floor = Total(both, O)
  BY <1>9, <1>10, <1>11, <1>12
<1>14. 100 * Total(size, O) <= MaxPortfolioPct * history.highest
  BY DEF ExposureCapped, Capital, size, O
<1>15. 10000 * Total(both, O) <= Charges * history.highest
  <2> DEFINE z == Total(size, O)
             f == Total(both, O)
             m == MaxPortfolioPct * history.highest
  <2>1. z \in Int /\ f \in Int /\ m \in Int /\ 100 * f <= k * z /\ 100 * z <= m
    <3>1. MaxPortfolioPct \in Nat /\ history.highest \in Nat
      <4>1. history.highest \in Nat
        BY DEF Types
      <4> QED
        BY <4>1, CycleAssumption
    <3>2. m \in Int
      BY <3>1, Product
    <3> QED
      BY <1>9, <1>10, <1>14, <3>2
  <2>2. Charges * history.highest = k * m
    <3>1. MaxPortfolioPct \in Nat /\ history.highest \in Nat /\ FeePct \in Nat
      <4>1. history.highest \in Nat
        BY DEF Types
      <4> QED
        BY <4>1, CycleAssumption
    <3>2. \A i, j, n \in Nat : (2 * i * j) * n = (2 * i) * (j * n)
      OBVIOUS
    <3> QED
      BY <3>1, <3>2 DEF Charges, k
  <2> HIDE DEF z, f, m
  <2>3. k * (100 * z) <= k * m
    BY <1>3, <2>1, ShareGrows
  <2>4. k * (100 * z) = 100 * (k * z) /\ k * z \in Int /\ k * m \in Int
    BY <1>3, <2>1
  <2>5. 10000 * f <= k * m
    <3> DEFINE x == k * z
               y == k * m
    <3>1. 100 * f <= x /\ 100 * x <= y /\ x \in Int /\ y \in Int
      BY <2>1, <2>3, <2>4
    <3> HIDE DEF x, y
    <3>2. 10000 * f <= y
      BY <2>1, <3>1
    <3> QED
      BY <3>2 DEF y
  <2> QED
    BY <2>2, <2>5 DEF f
<1> QED
  BY <1>13, <1>15

\* A closed trade costs no more than its size and a fee for each side.
LEMMA LossIs ==
  ASSUME NEW r \in RowRec, NEW pct \in Int, pct >= -100, r.filled <= r.size, r.fee <= BothFees(r.size)
  PROVE  Closed(r, pct).pnl >= -(r.size + BothFees(r.size))
<1> DEFINE t == Traded(r)
           g == pct * t
           q == g \div 100
<1>1. r.size \in Nat /\ r.filled \in Nat /\ r.fee \in Nat
  BY DEF RowRec
<1>2. t \in Nat /\ t <= r.size
  BY <1>1 DEF Traded
<1>3. BothFees(r.size) \in Nat
  BY WorthIs
<1> HIDE DEF t
<1>4. g \in Int /\ g >= -(100 * t)
  <2>1. (pct + 100) * t >= 0 /\ (pct + 100) * t = pct * t + 100 * t /\ pct * t \in Int
    BY <1>2
  <2> DEFINE x == pct * t
             y == (pct + 100) * t
  <2>2. x >= -(100 * t)
    <3>1. y >= 0 /\ y = x + 100 * t /\ x \in Int
      BY <2>1
    <3> HIDE DEF x, y
    <3> QED
      BY <1>2, <3>1
  <2> QED
    BY <2>1, <2>2
<1>5. Closed(r, pct).pnl = q - r.fee
  BY DEF Closed, RowRec, t
<1> HIDE DEF g
<1>6. q \in Int /\ q >= -t
  BY <1>2, <1>4
<1> HIDE DEF q
<1> QED
  BY <1>1, <1>2, <1>3, <1>5, <1>6

\* What a row was charged is at most both fees on its size.
LEMMA FeeBound ==
  ASSUME Types, NEW o \in Orders, Sized(o)
  PROVE  rows[o].filled <= rows[o].size /\ rows[o].fee <= BothFees(rows[o].size)
<1>1. rows[o] \in RowRec
  BY DEF Types, TypeOK
<1>2. rows[o].size \in Nat /\ rows[o].fee \in Nat
  BY <1>1 DEF RowRec
<1>3. FeeOn(rows[o].size) \in Nat
  BY <1>2, FeeIs
<1> QED
  BY <1>2, <1>3 DEF Sized, BothFees

\* Only a trade that is recorded lowers the floor: what closes loses no more than was at
\* risk (close_trade_for_order, _check_phantom_positions).
LEMMA FloorHolds ==
  ASSUME EmergencyMargin, Types, Queue, Placing, \A o \in Orders : Books(o) /\ Sized(o),
         [Next]_vars, ~ Record
  PROVE  Floor' \in Int /\ Floor \in Int /\ Floor <= Floor'
<1>1. Types'
  BY TypesStep
<1>2. /\ \A o \in Orders : rows[o] \in RowRec
      /\ \A o \in Orders : rows'[o] \in RowRec
  BY <1>1 DEF Types, TypeOK
<1>3. PICK S \in SUBSET Orders : TableCloses(S)
  BY TableStep
<1>4. ASSUME NEW o \in Orders PROVE Worth(rows[o]) <= Worth(rows'[o])
  <2>1. CASE o \in S
    <3>1. /\ rows[o].st = "open" /\ rows'[o].st = "closed"
          /\ \E pct \in GrossPct \cup {0} : rows'[o] = Closed(rows[o], pct)
      BY <1>3, <2>1 DEF TableCloses
    <3>2. PICK pct \in GrossPct \cup {0} : rows'[o] = Closed(rows[o], pct)
      BY <3>1
    <3>3. pct \in Int /\ pct >= -100
      BY CycleAssumption DEF EmergencyMargin
    <3>4. rows[o].filled <= rows[o].size /\ rows[o].fee <= BothFees(rows[o].size)
      BY FeeBound
    <3>5. Closed(rows[o], pct).pnl >= -(rows[o].size + BothFees(rows[o].size))
      BY <1>2, <3>3, <3>4, LossIs
    <3>6. Worth(rows[o]) = -(rows[o].size + BothFees(rows[o].size))
      BY <1>2, <3>1, WorthIs
    <3>7. Worth(rows'[o]) = rows'[o].pnl
      BY <1>2, <3>1, WorthIs
    <3>8. rows'[o].pnl = Closed(rows[o], pct).pnl /\ rows'[o].pnl \in Int /\ Worth(rows[o]) \in Int
      BY <1>2, <3>2, WorthIs DEF RowRec
    <3> QED
      BY <3>5, <3>6, <3>7, <3>8
  <2>2. CASE o \notin S
    <3>1. rows'[o].st = rows[o].st /\ rows'[o].pnl = rows[o].pnl /\ rows'[o].size = rows[o].size
      BY <1>3, <2>2 DEF TableCloses
    <3>2. Worth(rows'[o]) = Worth(rows[o])
      BY <3>1 DEF Worth
    <3> QED
      BY <1>2, <3>2, WorthIs
  <2> QED
    BY <2>1, <2>2
<1> DEFINE v == Worths
           w == Worths'
<1>5. /\ v \in [Orders -> Int] /\ w \in [Orders -> Int] /\ \A o \in Orders : v[o] <= w[o]
      /\ Floor = Initial + Total(v, Orders) /\ Floor' = Initial + Total(w, Orders)
  BY <1>2, <1>4, WorthIs DEF Worths, Floor
<1> HIDE DEF v, w
<1>6. Total(v, Orders) <= Total(w, Orders) /\ Total(v, Orders) \in Int /\ Total(w, Orders) \in Int
  BY <1>5, MoreTotal, Totals
<1>7. Initial \in Int
  BY CycleAssumption
<1> QED
  BY <1>5, <1>6, <1>7

\* A trade that is recorded lowers the floor by its size and both fees.
LEMMA FloorSinks ==
  ASSUME Types, Queue, Placing, Record
  PROVE  /\ Floor' \in Int /\ Floor \in Int /\ orders[used].size \in Nat
         /\ BothFees(orders[used].size) \in Nat
         /\ Floor' = Floor - (orders[used].size + BothFees(orders[used].size))
<1>1. /\ used \in Orders /\ rows[used] = NoRow
      /\ \A o \in Orders \ {used} : rows'[o] = rows[o]
      /\ rows'[used].st = "open" /\ rows'[used].size = orders[used].size
  BY RecordedIs
<1>2. Types'
  <2>1. [Next]_vars
    BY DEF Next, RunCycle, Trade
  <2> QED
    BY <2>1, TypesStep
<1>3. /\ \A o \in Orders : rows[o] \in RowRec
      /\ \A o \in Orders : rows'[o] \in RowRec
  BY <1>2 DEF Types, TypeOK
<1> DEFINE n == orders[used].size
           loss == n + BothFees(n)
           v == Worths
           w == Worths'
           R == Orders \ {used}
<1>4. n \in Nat /\ BothFees(n) \in Nat
  BY <1>1, <1>3, WorthIs DEF RowRec
<1>5. /\ v \in [Orders -> Int] /\ w \in [Orders -> Int] /\ \A o \in R : v[o] = w[o]
      /\ Floor = Initial + Total(v, Orders) /\ Floor' = Initial + Total(w, Orders)
  BY <1>1, <1>3, WorthIs DEF Worths, Floor
<1>6. v[used] = 0 /\ w[used] = -loss
  <2>1. Worth(rows[used]) = 0
    BY <1>1 DEF Worth, NoRow
  <2>2. Worth(rows'[used]) = -loss
    BY <1>1, <1>3, WorthIs
  <2> QED
    BY <1>1, <2>1, <2>2 DEF Worths
<1> HIDE DEF v, w, n, R
<1>7. /\ Total(v, Orders) = v[used] + Total(v, R) /\ Total(w, Orders) = w[used] + Total(w, R)
      /\ Total(v, R) \in Int /\ Total(w, R) \in Int
  BY <1>1, <1>5, Totals DEF R
<1>8. Total(v, R) = Total(w, R)
  BY <1>5, SameTotal DEF R
<1>9. Initial \in Int
  BY CycleAssumption
<1> DEFINE a == Total(v, R)
           f == BothFees(n)
<1>10. /\ Floor = Initial + (0 + a) /\ Floor' = Initial + (-(n + f) + a) /\ a \in Int
       /\ f \in Nat
  BY <1>4, <1>5, <1>6, <1>7, <1>8
<1>11. Floor \in Int /\ Floor' \in Int /\ Floor' = Floor - (n + f)
  <2> HIDE DEF a, f
  <2> QED
    BY <1>4, <1>9, <1>10
<1> QED
  BY <1>4, <1>11 DEF n

\* No step lets a row and its order differ in size, fills more than the size, or charges
\* more than a fee on the size for each side.
LEMMA SizedStep ==
  ASSUME Types, Queue, Placing, NEW o \in Orders, Books(o), Fees(o), Sized(o), [Next]_vars
  PROVE  Sized(o)'
<1>1. rows \in [Orders -> RowRec] /\ orders \in [Orders -> OrderRec] /\ rows[o] \in RowRec /\ orders[o] \in OrderRec
  BY DEF Types, TypeOK
<1> DEFINE SameRow ==
             /\ (rows'[o].st = "none") <=> (rows[o].st = "none")
             /\ rows'[o].size = rows[o].size /\ rows'[o].filled = rows[o].filled
             /\ rows'[o].fee = rows[o].fee
             /\ rows'[o].entryFees = rows[o].entryFees /\ rows'[o].exitFees = rows[o].exitFees
           SameOrder ==
             /\ Known(o)' => Known(o) /\ orders'[o].size = orders[o].size
             /\ orders'[o].filled <= orders'[o].size
<1>2. SameRow /\ SameOrder => Sized(o)'
  BY DEF Sized
<1>3. ASSUME rows'[o] = rows[o] PROVE SameRow
  BY <1>3
<1>4. ASSUME orders'[o] = orders[o] PROVE SameOrder
  BY <1>4 DEF Sized, Known
<1>5. CASE UNCHANGED vars \/ SkipCycle \/ Pause \/ Restart \/ ShutdownCloseTracker \/ FlipSwitch
           \/ Midnight \/ StartCycle \/ PlacingDone \/ Account \/ EnterSizing \/ Scanned
           \/ Reconciled \/ Applied
  <2>1. UNCHANGED <<orders, rows>>
    BY <1>5, NothingMoves
  <2> QED
    BY <1>2, <1>3, <1>4, <2>1
<1> USE DEF At, Running, DbOpen, local, money, outside
<1>6. CASE EmergencyCancel \/ Expire \/ ShutdownCancel
  <2>1. \/ rows'[o] = rows[o]
        \/ rows'[o] = [rows[o] EXCEPT !.entry = "cancelled"]
    BY <1>6 DEF EmergencyCancel, Expire, ShutdownCancel
  <2>2. SameRow
    BY <1>1, <2>1 DEF RowRec
  <2>3. SameOrder
    BY <1>6, CancelsAre DEF Known, Sized
  <2> QED
    BY <1>2, <2>2, <2>3
<1>7. CASE \E p \in Orders : EntryFills(p) \/ VenueCancels(p) \/ LegTriggers(p) \/ LegExpires(p)
  <2>1. PICK p \in Orders : EntryFills(p) \/ VenueCancels(p) \/ LegTriggers(p) \/ LegExpires(p)
    BY <1>7
  <2>2. /\ UNCHANGED rows
        /\ \A q \in Orders \ {p} : orders'[q] = orders[q]
        /\ orders[p].st # "none" \/ orders[p].leg = "armed"
        /\ orders'[p].size = orders[p].size
        /\ orders[p].filled <= orders[p].size => orders'[p].filled <= orders'[p].size
    BY <2>1, VisitedIs
  <2>3. SameRow
    BY <1>3, <2>2
  <2>4. CASE o # p
    BY <1>2, <1>4, <2>2, <2>3, <2>4
  <2>5. CASE o = p
    <3>1. Known(o)
      BY <2>2, <2>5 DEF Books, NoOrder, Known
    <3>2. SameOrder
      BY <2>2, <2>5, <3>1 DEF Sized
    <3> QED
      BY <1>2, <2>3, <3>2
  <2> QED
    BY <2>4, <2>5
<1>8. CASE ApplyEntry
  <2>1. events # <<>> /\ events' = Tail(events) /\ UNCHANGED orders /\ pc = "apply"
    BY <1>8 DEF ApplyEntry
  <2> DEFINE p == events[1][1]
  <2>2. /\ p \in Orders /\ Head(events) = events[1]
        /\ Waiting(p, events[1][2])
    BY <2>1, Consumed
  <2> DEFINE row == IF /\ Synced(p).st # "none" /\ ~orders[p].paper /\ orders[p].st = "filled"
                       /\ Synced(p).fee = 0
                    THEN ChargeEntry(Synced(p), Traded(Synced(p))) ELSE Synced(p)
  <2>3. rows' = [rows EXCEPT ![p] = row] /\ events[1][2] = "entry"
    BY <1>8, <2>2 DEF ApplyEntry
  <2>4. SameOrder
    BY <1>4, <2>1
  <2> HIDE DEF p
  <2>5. CASE o # p
    BY <1>2, <1>3, <2>2, <2>3, <2>4, <2>5
  <2>6. CASE o = p
    <3>1. /\ Synced(o) \in RowRec /\ Synced(o).st = rows[o].st
          /\ Synced(o).entryFees = rows[o].entryFees /\ Synced(o).exitFees = rows[o].exitFees
          /\ Synced(o).size = rows[o].size /\ Synced(o).fee = rows[o].fee
          /\ rows[o].st # "none" => Synced(o).filled = orders[o].filled
          /\ rows[o].st = "none" => Synced(o) = rows[o]
      BY <1>1, SyncedIs
    <3>2. Known(o)
      BY <2>2, <2>3, <2>6 DEF Books
    <3>3. rows'[o] = row
      BY <1>1, <2>2, <2>3, <2>6
    <3>4. CASE rows[o].st = "none"
      <4>1. rows'[o] = rows[o]
        BY <2>6, <3>1, <3>3, <3>4
      <4> QED
        BY <1>2, <1>3, <2>4, <4>1
    <3>5. CASE rows[o].st # "none"
      <4>1. /\ rows[o].size = orders[o].size /\ orders[o].filled <= orders[o].size
            /\ rows[o].fee <= (IF rows[o].entryFees > 0 THEN FeeOn(rows[o].size) ELSE 0)
                    + (IF rows[o].exitFees > 0 THEN FeeOn(rows[o].size) ELSE 0)
        BY <3>2, <3>5 DEF Sized
      <4> DEFINE n == rows[o].size
                 t == Traded(Synced(o))
      <4>2. n \in Nat /\ t \in Nat /\ t <= n /\ FeeOn(n) \in Nat /\ FeeOn(t) \in Nat /\ FeeOn(t) <= FeeOn(n)
        <5>1. n \in Nat /\ t \in Nat
          BY <1>1, <3>1, RowsTyped DEF RowRec
        <5>2. t <= n
          BY <1>1, <3>1, <3>5, <4>1, <5>1 DEF Traded
        <5> HIDE DEF n, t
        <5> QED
          BY <5>1, <5>2, FeeIs
      <4>3. /\ rows'[o].st # "none" /\ rows'[o].size = n /\ rows'[o].filled = orders[o].filled
            /\ rows'[o].exitFees = rows[o].exitFees
            /\ \/ rows'[o].entryFees = rows[o].entryFees /\ rows'[o].fee = rows[o].fee
               \/ rows'[o].entryFees = rows[o].entryFees + 1 /\ rows'[o].fee = 0 + FeeOn(t)
                  /\ rows[o].fee = 0
        <5>1. row = Synced(o) \/ (row = ChargeEntry(Synced(o), t) /\ Synced(o).fee = 0)
          BY <2>6
        <5> HIDE DEF row, t
        <5> QED
          BY <3>1, <3>3, <3>5, <5>1, Charged
      <4>4. /\ rows[o].entryFees \in Nat /\ rows[o].exitFees \in Nat /\ orders[o].filled \in Nat
        BY <1>1 DEF RowRec, OrderRec
      <4>5. rows'[o].fee <= (IF rows'[o].entryFees > 0 THEN FeeOn(n) ELSE 0)
                              + (IF rows'[o].exitFees > 0 THEN FeeOn(n) ELSE 0)
        <5> DEFINE f == FeeOn(n)
                   h == FeeOn(t)
        <5>1. f \in Nat /\ h \in Nat /\ h <= f
          BY <4>2
        <5>2. /\ rows[o].fee <= (IF rows[o].entryFees > 0 THEN f ELSE 0)
                    + (IF rows[o].exitFees > 0 THEN f ELSE 0)
              /\ rows'[o].exitFees = rows[o].exitFees
              /\ \/ rows'[o].entryFees = rows[o].entryFees /\ rows'[o].fee = rows[o].fee
                 \/ rows'[o].entryFees = rows[o].entryFees + 1 /\ rows'[o].fee = h
          BY <4>1, <4>2, <4>3
        <5> HIDE DEF f, h
        <5>3. rows'[o].fee <= (IF rows'[o].entryFees > 0 THEN f ELSE 0)
                    + (IF rows'[o].exitFees > 0 THEN f ELSE 0)
          BY <4>4, <5>1, <5>2
        <5> QED
          BY <5>3 DEF f
      <4> QED
        BY <2>1, <4>1, <4>3, <4>5 DEF Sized, Known
    <3> QED
      BY <3>4, <3>5
  <2> QED
    BY <2>5, <2>6
<1>9. CASE ApplyExitFee
  <2> DEFINE p == events[1][1]
  <2>1. /\ UNCHANGED orders
        /\ rows' = [rows EXCEPT ![p] = IF @.st = "none" THEN @ ELSE ChargeExit(@)]
    <3>1. events # <<>> /\ Head(events) = events[1]
      BY <1>9 DEF ApplyExitFee, Types
    <3> QED
      BY <1>9, <3>1 DEF ApplyExitFee
  <2>2. p \in Orders
    BY <1>9 DEF ApplyExitFee, Types
  <2>3. SameOrder
    BY <1>4, <2>1
  <2> HIDE DEF p
  <2>4. CASE o # p \/ rows[o].st = "none"
    BY <1>1, <1>2, <1>3, <2>1, <2>2, <2>3, <2>4
  <2>5. CASE o = p /\ rows[o].st # "none"
    <3> DEFINE n == rows[o].size
               t == Traded(rows[o])
    <3>1. rows'[o] = ChargeExit(rows[o])
      BY <1>1, <2>1, <2>2, <2>5
    <3>2. /\ rows'[o].st = rows[o].st /\ rows'[o].size = n /\ rows'[o].filled = rows[o].filled
          /\ rows'[o].entryFees = rows[o].entryFees /\ rows'[o].exitFees = rows[o].exitFees + 1
          /\ rows'[o].fee = rows[o].fee + FeeOn(t)
      BY <1>1, <3>1, Charged
    <3>3. rows'[o].exitFees <= 1
      BY FeesStep DEF Fees
    <3>4. n \in Nat /\ t \in Nat /\ t <= n /\ FeeOn(n) \in Nat /\ FeeOn(t) \in Nat /\ FeeOn(t) <= FeeOn(n)
      <4>1. n \in Nat /\ t \in Nat
        BY <1>1, RowsTyped DEF RowRec
      <4>2. t <= n
        BY <1>1, <4>1 DEF Traded, Sized
      <4> HIDE DEF n, t
      <4> QED
        BY <4>1, <4>2, FeeIs
    <3> DEFINE f == FeeOn(n)
               h == FeeOn(t)
    <3>5. /\ f \in Nat /\ h \in Nat /\ h <= f
          /\ rows[o].fee <= (IF rows[o].entryFees > 0 THEN f ELSE 0)
                    + (IF rows[o].exitFees > 0 THEN f ELSE 0)
          /\ rows'[o].fee = rows[o].fee + h
          /\ rows[o].fee \in Nat /\ rows[o].entryFees \in Nat /\ rows[o].exitFees \in Nat
      BY <1>1, <3>2, <3>4 DEF Sized, RowRec
    <3>6. rows'[o].fee <= (IF rows'[o].entryFees > 0 THEN f ELSE 0)
                    + (IF rows'[o].exitFees > 0 THEN f ELSE 0)
      <4> HIDE DEF f, h
      <4>1. rows[o].exitFees = 0
        BY <3>2, <3>3, <3>5
      <4> QED
        BY <3>2, <3>5, <4>1
    <3> QED
      BY <2>1, <2>5, <3>2, <3>6 DEF Sized, Known
  <2> QED
    BY <2>4, <2>5
<1>10. CASE ApplyClose \/ CloseRollsBack
  <2> DEFINE p == events[1][1]
  <2>1. events # <<>> /\ events' = Tail(events) /\ UNCHANGED orders
    BY <1>10 DEF ApplyClose, CloseRollsBack, Queue
  <2>2. p \in Orders /\ Head(events) = events[1]
    BY <2>1, Consumed
  <2>3. SameRow
    <3>1. CASE ApplyClose
      <4> DEFINE row(pct) == IF rows[p].st = "none" THEN rows[p] ELSE Closed(rows[p], pct)
      <4>1. PICK pct \in GrossPct : rows' = [rows EXCEPT ![p] = row(pct)]
        BY <2>2, <3>1 DEF ApplyClose
      <4>2. pct \in Int
        BY <4>1, CycleAssumption
      <4> HIDE DEF p
      <4>3. /\ (row(pct).st = "none") <=> (rows[p].st = "none")
            /\ row(pct).size = rows[p].size /\ row(pct).filled = rows[p].filled
            /\ row(pct).fee = rows[p].fee
            /\ row(pct).entryFees = rows[p].entryFees /\ row(pct).exitFees = rows[p].exitFees
        BY <1>1, <2>2, <4>2, ClosedIs
      <4> HIDE DEF row
      <4> QED
        BY <1>1, <2>2, <4>1, <4>3
    <3>2. CASE CloseRollsBack
      BY <3>2 DEF CloseRollsBack
    <3> QED
      BY <1>10, <3>1, <3>2
  <2> QED
    BY <1>2, <1>4, <2>1, <2>3
<1>11. CASE EmergencyHalt \/ Fail
  <2>1. UNCHANGED <<orders, rows>>
    BY <1>11 DEF EmergencyHalt, Fail
  <2> QED
    BY <1>2, <1>3, <1>4, <2>1
<1>12. CASE Exit \/ Crash
  <2>1. UNCHANGED rows /\ orders'[o] = NoOrder
    BY <1>12 DEF Exit, Crash, Forget
  <2>2. SameOrder
    BY <2>1 DEF Known, NoOrder
  <2> QED
    BY <1>2, <1>3, <2>1, <2>2
<1>13. CASE PlaceOrder
  <2> DEFINE p == used + 1
  <2>1. /\ p \in Orders /\ UNCHANGED rows
        /\ \A q \in Orders \ {p} : orders'[q] = orders[q]
        /\ orders'[p].size \in Nat /\ orders'[p].filled \in {0, orders'[p].size}
    BY <1>13, PlacedIs
  <2>2. used \in Nat /\ o \in Nat /\ p = used + 1
    BY DEF Types, TypeOK, Orders
  <2> HIDE DEF p
  <2>3. CASE o = p
    <3>1. rows[o] = NoRow
      BY <2>2, <2>3 DEF Books
    <3>2. rows'[o].st = "none" /\ orders'[o].filled <= orders'[o].size
      BY <2>1, <2>3, <3>1 DEF NoRow
    <3> QED
      BY <2>1, <3>2 DEF Sized
  <2>4. CASE o # p
    BY <1>2, <1>3, <1>4, <2>1, <2>4
  <2> QED
    BY <2>3, <2>4
<1>14. CASE Record
  <2>1. /\ used \in Orders /\ UNCHANGED orders
        /\ \A q \in Orders \ {used} : rows'[q] = rows[q]
        /\ rows'[used].st = "open" /\ rows'[used].size = orders[used].size
        /\ rows'[used].exitFees = 0 /\ rows'[used].filled = orders[used].filled
        /\ \/ rows'[used].entryFees = 0 /\ rows'[used].fee = 0
           \/ rows'[used].entryFees = 1 /\ rows'[used].fee = FeeOn(orders[used].size)
    BY <1>14, RecordedIs
  <2>2. CASE o = used
    <3>1. FeeOn(orders[o].size) \in Nat
      BY <1>1, FeeIs DEF OrderRec
    <3>2. orders[o].filled <= orders[o].size /\ orders'[o] = orders[o]
      BY <2>1 DEF Sized
    <3> DEFINE f == FeeOn(orders[o].size)
    <3>3. /\ rows'[o].exitFees = 0
          /\ \/ rows'[o].entryFees = 0 /\ rows'[o].fee = 0
             \/ rows'[o].entryFees = 1 /\ rows'[o].fee = f
          /\ f \in Nat
      BY <2>1, <2>2, <3>1
    <3>4. rows'[o].fee <= (IF rows'[o].entryFees > 0 THEN f ELSE 0)
                    + (IF rows'[o].exitFees > 0 THEN f ELSE 0)
      <4> HIDE DEF f
      <4> QED
        BY <3>3
    <3> QED
      BY <2>1, <2>2, <3>2, <3>4 DEF Sized
  <2>3. CASE o # used
    BY <1>2, <1>3, <1>4, <2>1, <2>3
  <2> QED
    BY <2>2, <2>3
<1>15. CASE Audit
  <2>1. UNCHANGED orders
    BY <1>15 DEF Audit
  <2>2. \/ rows'[o] = rows[o]
        \/ rows[o].st = "open" /\ \E pct \in Int : rows'[o] = Closed(rows[o], pct)
    BY <1>15, AuditIs
  <2>4. SameRow
    BY <1>1, <2>2, ClosedIs
  <2> QED
    BY <1>2, <1>4, <2>1, <2>4
<1> QED
  BY <1>5, <1>6, <1>7, <1>8, <1>9, <1>10, <1>11, <1>12, <1>13, <1>14, <1>15
  DEF Next, RunCycle, Process, Lifecycle, Trade

-----------------------------------------------------------------------------
(* The tiers hold the floor above the emergency threshold.                 *)

\* Larger factors of a sum of two parts make it larger.
LEMMA Times ==
  ASSUME NEW m \in Nat, NEW a \in Int, NEW b \in Int
  PROVE  m * (a + b) = m * a + m * b /\ m * (a - b) = m * a - m * b /\ m * a \in Int
OBVIOUS

\* A multiplier that falls as the drawdown t grows over the reduction tier, of width d,
\* keeps what is drawn down and what may still be placed together below the larger of the
\* two ends (get_multiplier).
LEMMA Blend ==
  ASSUME NEW d \in Nat, d > 0, NEW t \in Nat, t <= d, NEW y \in Nat, NEW u \in Nat,
         NEW M \in Nat, y <= M, 100 * d <= M, u * d <= 100 * (d - t)
  PROVE  10000 * t + u * y <= 100 * M
<1>1. t * (100 * d) <= t * M
  BY ShareGrows
<1>2. (d - t) * y <= (d - t) * M
  <2>1. d - t \in Nat
    OBVIOUS
  <2> DEFINE r == d - t
  <2> HIDE DEF r
  <2>2. r * y <= r * M
    BY <2>1, ShareGrows DEF r
  <2> QED
    BY <2>2 DEF r
<1>3. y * (u * d) <= y * (100 * (d - t))
  <2>1. u * d \in Int /\ 100 * (d - t) \in Int
    OBVIOUS
  <2> DEFINE a == u * d
             b == 100 * (d - t)
  <2> HIDE DEF a, b
  <2>2. y * a <= y * b
    BY <2>1, ShareGrows DEF a, b
  <2> QED
    BY <2>2 DEF a, b
<1>4. /\ t * (100 * d) = 100 * (t * d) /\ t * d \in Int
      /\ y * (u * d) = d * (u * y) /\ u * y \in Nat /\ d * (u * y) \in Int
      /\ y * (100 * (d - t)) = 100 * ((d - t) * y) /\ (d - t) * y \in Int
      /\ (d - t) * M = d * M - t * M /\ d * M \in Int /\ t * M \in Int
      /\ d * (10000 * t) = 10000 * (t * d)
  <2>1. t * (100 * d) = 100 * (t * d) /\ t * d \in Int /\ d * (10000 * t) = 10000 * (t * d)
    OBVIOUS
  <2>2. y * (u * d) = d * (u * y) /\ u * y \in Nat /\ d * (u * y) \in Int
    OBVIOUS
  <2>3. y * (100 * (d - t)) = 100 * ((d - t) * y) /\ (d - t) * y \in Int
    <3> DEFINE r == d - t
    <3>1. r \in Nat
      OBVIOUS
    <3> HIDE DEF r
    <3>2. y * (100 * r) = 100 * (r * y) /\ r * y \in Int
      BY <3>1
    <3> QED
      BY <3>2 DEF r
  <2>4. (d - t) * M = d * M - t * M /\ d * M \in Int /\ t * M \in Int
    OBVIOUS
  <2> QED
    BY <2>1, <2>2, <2>3, <2>4
<1> DEFINE td == t * d
           uy == u * y
           duy == d * (u * y)
           ry == (d - t) * y
           dM == d * M
           tM == t * M
<1>5. 10000 * td + duy <= 100 * dM
  <2>1. /\ td \in Int /\ duy \in Int /\ ry \in Int /\ dM \in Int /\ tM \in Int
        /\ 100 * td <= tM /\ ry <= dM - tM /\ duy <= 100 * ry
    BY <1>1, <1>2, <1>3, <1>4
  <2> HIDE DEF td, duy, ry, dM, tM
  <2> QED
    BY <2>1
<1>6. d * (10000 * t + uy) <= d * (100 * M)
  <2>1. d * (10000 * t + uy) = d * (10000 * t) + d * uy /\ d * uy = duy /\ d * (10000 * t) = 10000 * td
    BY <1>4, Times
  <2>2. d * (100 * M) = 100 * dM
    OBVIOUS
  <2> QED
    BY <1>5, <2>1, <2>2
<1>7. 10000 * t + uy <= 100 * M
  <2> DEFINE a == 10000 * t + uy
             b == 100 * M
  <2>1. a \in Int /\ b \in Int /\ d * a <= d * b
    BY <1>4, <1>6
  <2> HIDE DEF a, b
  <2>2. ASSUME a > b PROVE FALSE
    <3>1. d * (a - b) = d * a - d * b /\ d * a \in Int /\ d * b \in Int
      BY <2>1, Times
    <3>2. a - b >= 1 /\ a - b \in Int
      BY <2>1, <2>2
    <3> DEFINE r == a - b
    <3> HIDE DEF r
    <3>3. d * 1 <= d * r
      BY <3>2, ShareGrows DEF r
    <3>4. d * r = d * a - d * b
      BY <3>1 DEF r
    <3> QED
      BY <2>1, <3>1, <3>3, <3>4
  <2>3. a <= b
    BY <2>1, <2>2
  <2> QED
    BY <2>3 DEF a, b
<1> QED
  BY <1>7

\* However many of its orders a cycle recorded, the floor stays above the emergency
\* threshold: p is the peak, b the bankroll when sizing began, u the multiplier fixed then.
LEMMA MarginHolds ==
  ASSUME EmergencyMargin, NEW p \in Nat, p > 0, NEW b \in 0..p, NEW F \in Int, NEW u \in 0..100,
         NEW k \in 0..TopN, Committed(p, b, F, u, k)
  PROVE  100 * (p - F) < EmergencyPct * p
<1> USE DEF Committed
<1>1. /\ ReducePct \in Nat /\ StopPct \in Nat /\ EmergencyPct \in Nat /\ TopN \in Nat
      /\ ReducePct < StopPct
      /\ Charges \in Nat /\ PerOrder \in Nat /\ PerCycle \in Nat /\ PerCycle = TopN * PerOrder
  <2>1. /\ FeePct \in Nat /\ MaxPortfolioPct \in Nat /\ MaxPositionPct \in Nat
        /\ ReducePct \in Nat /\ StopPct \in Nat /\ EmergencyPct \in Nat /\ TopN \in Nat
        /\ ReducePct < StopPct
    BY CycleAssumption
  <2>2. PerOrder \in Nat /\ Charges \in Nat
    <3>1. 100 + 2 * FeePct \in Nat /\ 2 * FeePct \in Nat
      BY <2>1
    <3> QED
      BY <2>1, <3>1, Product DEF PerOrder, Charges
  <2>3. PerCycle \in Nat
    BY <2>1, <2>2, Product DEF PerCycle
  <2> QED
    BY <2>1, <2>2, <2>3 DEF PerCycle
<1> DEFINE x == Charges * p
           y == PerCycle * p
           rp == ReducePct * p
           sp == StopPct * p
           ep == EmergencyPct * p
           z == PerOrder * (u * p)
           g == 100 * (p - b)
<1>2. x \in Nat /\ y \in Nat /\ rp \in Nat /\ sp \in Nat /\ ep \in Nat /\ g \in Nat
  BY <1>1, Product
<1>3. z \in Nat
  <2>1. u * p \in Nat
    BY Product
  <2> QED
    BY <1>1, <2>1, Product
<1>4. k * z <= u * y /\ k * z \in Int /\ u * y \in Nat
  <2>1. z * k <= z * TopN
    <3> HIDE DEF z
    <3> QED
      BY <1>1, <1>3, ShareGrows
  <2>2. z * TopN = u * y
    <3>1. \A i, j, m \in Nat : (i * (u * m)) * j = u * ((j * i) * m)
      OBVIOUS
    <3> QED
      BY <1>1, <3>1
  <2>3. z * k = k * z /\ k * z \in Int /\ u * y \in Nat
    <3> HIDE DEF y, z
    <3> QED
      BY <1>2, <1>3
  <2> QED
    BY <2>1, <2>2, <2>3
<1>5. 100 * sp + x < 100 * ep /\ (100 * rp + y) + x < 100 * ep
  <2>1. \A i, j \in Nat : i < j => i * p < j * p
    <3> SUFFICES ASSUME NEW i \in Nat, NEW j \in Nat, i < j PROVE i * p < j * p
      OBVIOUS
    <3>1. (j - i) * p >= 1 * p /\ (j - i) * p = j * p - i * p
      BY Times
    <3> QED
      BY <3>1
  <2>2. (100 * StopPct + Charges) * p < (100 * EmergencyPct) * p
    <3>1. 100 * StopPct + Charges < 100 * EmergencyPct
      BY DEF EmergencyMargin
    <3> QED
      BY <1>1, <2>1, <3>1
  <2>3. (100 * ReducePct + PerCycle + Charges) * p < (100 * EmergencyPct) * p
    <3>1. 100 * ReducePct + PerCycle + Charges < 100 * EmergencyPct
      BY DEF EmergencyMargin
    <3>2. 100 * ReducePct + PerCycle + Charges \in Nat /\ 100 * EmergencyPct \in Nat
      BY <1>1
    <3> QED
      BY <2>1, <3>1, <3>2
  <2>4. \A i, j, m \in Nat : /\ (100 * i) * p = 100 * (i * p)
                            /\ (100 * i + j) * p = 100 * (i * p) + j * p
                            /\ (100 * i + j + m) * p = (100 * (i * p) + j * p) + m * p
    OBVIOUS
  <2> QED
    BY <1>1, <2>2, <2>3, <2>4
<1>6. /\ g < sp /\ (g >= rp => u * (sp - rp) <= 100 * (sp - g))
      /\ rp < sp
      /\ 10000 * (100 * (p - F)) <= (10000 * g + 100 * x) + u * y
  <2>1. (StopPct - ReducePct) * p = sp - rp
    <3>1. \A i, j \in Nat : (i - j) * p = i * p - j * p
      OBVIOUS
    <3> QED
      BY <1>1, <3>1
  <2>2. g < sp /\ (g >= rp => u * (sp - rp) <= 100 * (sp - g))
    BY <2>1
  <2>3. rp < sp
    <3>1. (StopPct - ReducePct) * p >= 1 * p
      <4>1. \A i \in Nat : i >= 1 => i * p >= 1 * p
        OBVIOUS
      <4> QED
        BY <1>1, <4>1
    <3> QED
      BY <1>2, <2>1, <3>1
  <2>4. 100 * (10000 * (b - F)) <= 100 * x + k * z
    OBVIOUS
  <2> DEFINE kz == k * z
             uy == u * y
  <2>5. 10000 * (100 * (p - F)) <= (10000 * g + 100 * x) + uy
    <3>1. kz <= uy /\ kz \in Int /\ uy \in Nat /\ 100 * (10000 * (b - F)) <= 100 * x + kz
      BY <1>4, <2>4
    <3> HIDE DEF kz, uy, x
    <3> QED
      BY <1>2, <3>1
  <2> QED
    BY <2>2, <2>3, <2>5
<1> HIDE DEF x, y, rp, sp, ep, z, g
<1>7. CASE g < rp
  <2>1. u * y <= 100 * y
    <3>1. y * u <= y * 100
      BY <1>2, ShareGrows
    <3>2. u * y = y * u
      BY <1>2
    <3> QED
      BY <1>2, <3>1, <3>2
  <2> DEFINE uy == u * y
             q == 100 * (p - F)
  <2>2. uy \in Nat /\ uy <= 100 * y /\ 10000 * q <= (10000 * g + 100 * x) + uy /\ q \in Int
    BY <1>4, <1>6, <2>1
  <2> HIDE DEF uy, q
  <2>3. q < ep
    BY <1>2, <1>5, <1>7, <2>2
  <2> QED
    BY <2>3 DEF q, ep
<1>8. CASE g >= rp
  <2> DEFINE d == sp - rp
             t == g - rp
             M == IF y >= 100 * d THEN y ELSE 100 * d
  <2>1. /\ d \in Nat /\ d > 0 /\ t \in Nat /\ t <= d /\ M \in Nat /\ y <= M /\ 100 * d <= M
        /\ u * d <= 100 * (d - t) /\ u \in Nat
    BY <1>2, <1>6, <1>8
  <2>2. M = y \/ M = 100 * d
    OBVIOUS
  <2> DEFINE uy == u * y
             q == 100 * (p - F)
  <2>3. 10000 * t + uy <= 100 * M
    <3> HIDE DEF d, t, M
    <3> QED
      BY <1>2, <2>1, Blend
  <2>4. uy \in Nat /\ 10000 * q <= (10000 * g + 100 * x) + uy /\ q \in Int
    BY <1>4, <1>6
  <2> HIDE DEF uy, q
  <2>5. M = y => q < ep
    <3> HIDE DEF M
    <3> QED
      BY <1>2, <1>5, <2>3, <2>4
  <2>6. M = 100 * d => q < ep
    <3> HIDE DEF M
    <3> QED
      BY <1>2, <1>5, <2>3, <2>4
  <2> QED
    BY <2>2, <2>5, <2>6 DEF q, ep
<1> QED
  BY <1>2, <1>7, <1>8

-----------------------------------------------------------------------------
(* Every step keeps the distance.                                          *)

\* The multiplier that is fixed when a cycle begins to place is the one of the drawdown
\* tiers (get_multiplier), rounded down.
LEMMA MultiplierBrakes ==
  ASSUME bankroll \in Nat, peak \in Nat, peak > 0, Multiplier > 0
  PROVE  /\ 100 * (peak - bankroll) < StopPct * peak
         /\ 100 * (peak - bankroll) >= ReducePct * peak =>
              Multiplier * ((StopPct - ReducePct) * peak) <= 100 * (StopPct * peak - 100 * (peak - bankroll))
<1>1. StopPct \in Nat /\ ReducePct \in Nat /\ ReducePct < StopPct
  BY CycleAssumption
<1> DEFINE g == 100 * (peak - bankroll)
           sp == StopPct * peak
           d == (StopPct - ReducePct) * peak
<1>2. g \in Int /\ sp \in Int /\ d \in Nat /\ d > 0
  <2>1. g \in Int /\ sp \in Int
    BY <1>1
  <2>2. \A i \in Nat : i >= 1 => i * peak >= 1 * peak /\ i * peak \in Nat
    OBVIOUS
  <2>3. StopPct - ReducePct \in Nat /\ StopPct - ReducePct >= 1
    BY <1>1
  <2>4. d >= 1 * peak /\ d \in Nat
    BY <2>2, <2>3
  <2> QED
    BY <2>1, <2>4
<1>3. ~ DrawdownAtLeast(StopPct)
  BY DEF Multiplier
<1>4. DrawdownAtLeast(ReducePct) => Multiplier = (100 * (sp - g)) \div d
  BY <1>3 DEF Multiplier
<1>5. g < sp
  BY <1>2, <1>3 DEF DrawdownAtLeast
<1>6. ASSUME g >= ReducePct * peak PROVE Multiplier * d <= 100 * (sp - g)
  <2>1. DrawdownAtLeast(ReducePct)
    BY <1>6 DEF DrawdownAtLeast
  <2> DEFINE a == 100 * (sp - g)
             q == a \div d
  <2>2. a \in Int
    BY <1>2
  <2>3. d * q <= a /\ q \in Int
    <3> HIDE DEF a, d
    <3> QED
      BY <1>2, <2>2
  <2>4. q * d = d * q
    <3> HIDE DEF d, q
    <3> QED
      BY <1>2, <2>3
  <2> HIDE DEF a, d
  <2>5. q * d <= a
    BY <2>3, <2>4
  <2>6. Multiplier = q
    BY <1>4, <2>1 DEF a, d
  <2> QED
    BY <2>5, <2>6 DEF a, d
<1> QED
  BY <1>5, <1>6

\* No step of a process that was never disturbed reaches the emergency threshold.
LEMMA CalmStep ==
  ASSUME EmergencyMargin, CycleInv, CycleInv', Calm, \A o \in Orders : Sized(o), [Next]_vars
  PROVE  Calm'
<1> SUFFICES ASSUME ~ history'.disturbed PROVE Calm'
  BY DEF Calm
<1>1. /\ Types /\ Types' /\ Queue /\ Placing /\ Placing' /\ ExposureCapped /\ ExposureCapped'
      /\ \A o \in Orders : Books(o)
  BY DEF CycleInv, Fits
<1>2. /\ bankroll \in Nat /\ peak \in Nat /\ peak > 0 /\ mult \in 0..100 /\ turn \in Nat
      /\ bankroll' \in Nat /\ peak' \in Nat /\ peak' > 0
      /\ history.highest \in Nat /\ history'.highest \in Nat
  BY <1>1, CycleAssumption DEF Types, TypeOK
<1>3. Floor \in Int /\ Floor' \in Int
  <2>1. Floor \in Int
    BY <1>1, FloorIs
  <2>2. Floor' \in Int
    <3>1. CASE Record
      BY <1>1, <3>1, FloorSinks
    <3>2. CASE ~ Record
      BY <1>1, <3>2, FloorHolds
    <3> QED
      BY <3>1, <3>2
  <2> QED
    BY <2>1, <2>2
<1>4. EmergencyPct * peak \in Nat /\ Charges * peak \in Nat
  <2>1. EmergencyPct \in Nat /\ FeePct \in Nat /\ MaxPortfolioPct \in Nat
    BY CycleAssumption
  <2>2. 2 * FeePct \in Nat
    BY <2>1
  <2>3. Charges \in Nat
    BY <2>1, <2>2, Product DEF Charges
  <2> QED
    BY <1>2, <2>1, <2>3, Product
<1> DEFINE ep == EmergencyPct * peak
           cp == Charges * peak
           Quiet == /\ UNCHANGED <<bankroll, peak>> /\ history'.highest = history.highest
                    /\ history'.disturbed = history.disturbed
                    /\ history'.emergency => history.emergency
<1>5. ASSUME Quiet, pc \notin {"place", "record", "account"},
             pc' \notin {"place", "record", "account", "halt"},
             pc' \in {"apply", "close", "size"} => turn' = 0
      PROVE  Calm'
  <2>1. ~ Record
    BY <1>5 DEF Record, At
  <2>2. Floor <= Floor'
    BY <1>1, <2>1, FloorHolds
  <2>3. /\ history.highest <= peak /\ bankroll <= peak
        /\ 100 * (peak - Floor) < ep /\ 100 * (peak - bankroll) < ep
        /\ 10000 * (bankroll - Floor) <= cp
        /\ ~ history.emergency
    BY <1>5 DEF Calm
  <2> HIDE DEF ep, cp
  <2>4. 100 * (peak - Floor') < ep /\ 10000 * (bankroll - Floor') <= cp
    BY <1>2, <1>3, <1>4, <2>2, <2>3 DEF ep, cp
  <2>5. /\ ~ history'.emergency /\ history'.highest <= peak' /\ bankroll' <= peak'
        /\ 100 * (peak' - Floor') < EmergencyPct * peak'
        /\ 100 * (peak' - bankroll') < EmergencyPct * peak'
        /\ 10000 * (bankroll' - Floor') <= Charges * peak'
    BY <1>5, <2>3, <2>4 DEF ep, cp
  <2> QED
    BY <1>5, <2>5 DEF Calm
<1>6. ASSUME Quiet, UNCHANGED <<pc, turn, mult, positions, rows, used>>,
             pc = "record" => orders'[used].size = orders[used].size
      PROVE  Calm'
  <2>1. Floor' = Floor /\ OpenRows' = OpenRows
    BY <1>6 DEF Floor, OpenRows
  <2>2. \A b : PlacedFrom(b)' <=> PlacedFrom(b)
    BY <1>6, <2>1 DEF PlacedFrom, Braked, Recorded
  <2>3. pc' = "record" => orders'[used'].size = orders[used].size
    BY <1>6
  <2> QED
    BY <1>6, <2>1, <2>2, <2>3 DEF Calm
<1> USE DEF At, Running, DbOpen, local, money, outside
<1>7. CASE UNCHANGED vars \/ SkipCycle \/ Pause \/ Restart \/ ShutdownCloseTracker
  <2>1. UNCHANGED <<bankroll, peak, history, pc, turn, mult, positions, rows, used, orders>>
    BY <1>7 DEF vars, SkipCycle, Pause, Restart, ShutdownCloseTracker
  <2> QED
    BY <1>6, <2>1
<1>8. CASE FlipSwitch \/ Midnight
  <2>1. UNCHANGED <<bankroll, peak, pc, turn, mult, positions, rows, used, orders>>
    BY <1>8 DEF FlipSwitch, Midnight
  <2>2. history' = [history EXCEPT !.emergency = FALSE] \/ history' = [history EXCEPT !.today = 0]
    BY <1>8 DEF FlipSwitch, Midnight
  <2>3. Quiet
    BY <1>1, <2>1, <2>2 DEF Types
  <2> QED
    BY <1>6, <2>1, <2>3
<1>9. CASE ShutdownCancel
  <2>1. UNCHANGED <<bankroll, peak, history, pc, turn, mult, positions, rows, used>>
    BY <1>9 DEF ShutdownCancel
  <2>2. pc = "record" => orders'[used].size = orders[used].size
    BY <1>1, <1>9, CancelsAre DEF Placing
  <2> QED
    BY <1>6, <2>1, <2>2
<1>10. CASE StartCycle \/ Scanned \/ Reconciled \/ Applied \/ ApplyEntry \/ ApplyExitFee \/ Expire \/ Audit
  <2>1. UNCHANGED <<bankroll, peak, history>>
    BY <1>10 DEF StartCycle, Scanned, Reconciled, Applied, ApplyEntry, ApplyExitFee, Expire, Audit
  <2>2. pc \notin {"place", "record", "account"} /\ pc' \notin {"place", "record", "account", "halt"}
    BY <1>10 DEF StartCycle, Scanned, Reconciled, Applied, ApplyEntry, ApplyExitFee, Expire, Audit
  <2>3. pc' \in {"apply", "close", "size"} => turn' = 0
    <3>1. pc' \in {"apply", "close", "size"} => turn' = 0 \/ (turn' = turn /\ pc = "apply")
      BY <1>10 DEF StartCycle, Scanned, Reconciled, Applied, ApplyEntry, ApplyExitFee, Expire, Audit
    <3>2. pc = "apply" => turn = 0
      BY <2>1 DEF Calm
    <3> QED
      BY <3>1, <3>2
  <2> QED
    BY <1>5, <2>1, <2>2, <2>3
<1>11. CASE \E p \in Orders : EntryFills(p) \/ VenueCancels(p) \/ LegTriggers(p) \/ LegExpires(p)
  <2>1. history' = history /\ pc' = "reconcile" /\ pc = "reconcile"
    BY <1>1, <1>11, VisitedIs
  <2>2. UNCHANGED <<bankroll, peak>>
    BY <1>11 DEF EntryFills, VenueCancels, LegTriggers, LegExpires, Visit
  <2> QED
    BY <1>5, <2>1, <2>2
<1>12. CASE ApplyClose \/ CloseRollsBack
  <2>1. pc' = "apply" /\ pc = "close" /\ UNCHANGED <<bankroll, peak, turn>>
    BY <1>12 DEF ApplyClose, CloseRollsBack
  <2>2. Quiet
    <3>1. CASE ApplyClose
      <4>1. PICK n : history' = [history EXCEPT !.today = @ + n]
        BY <3>1 DEF ApplyClose
      <4> QED
        BY <1>1, <2>1, <4>1 DEF Types
    <3>2. CASE CloseRollsBack
      <4>1. PICK n : history' = [history EXCEPT !.lost = @ \cup n]
        BY <3>2 DEF CloseRollsBack
      <4> QED
        BY <1>1, <2>1, <4>1 DEF Types
    <3> QED
      BY <1>12, <3>1, <3>2
  <2>3. turn' = 0
    BY <2>1, <2>2 DEF Calm
  <2> QED
    BY <1>5, <2>1, <2>2, <2>3
<1>13. CASE Fail \/ Exit \/ Crash
  <2>1. \/ history' = [history EXCEPT !.disturbed = TRUE, !.lost = @ \cup Unwritten]
        \/ \E n : history' = [history EXCEPT !.disturbed = TRUE, !.emergency = FALSE, !.today = 0, !.lost = n]
    BY <1>13 DEF Fail, Exit, Crash, Forget
  <2>2. history'.disturbed
    BY <1>1, <2>1 DEF Types
  <2> QED
    BY <2>2
<1>14. CASE EmergencyCancel \/ EmergencyHalt
  <2>1. pc = "halt" /\ (history' = history \/ history' = [history EXCEPT !.emergency = TRUE])
    BY <1>14 DEF EmergencyCancel, EmergencyHalt
  <2>2. ~ history.disturbed
    BY <1>1, <2>1 DEF Types
  <2> QED
    BY <2>1, <2>2 DEF Calm
<1>15. CASE PlacingDone
  <2>1. /\ pc = "place" /\ pc' = "account"
        /\ UNCHANGED <<bankroll, peak, history, rows, positions>>
    BY <1>15 DEF PlacingDone
  <2>2. Floor' = Floor /\ OpenRows' = OpenRows /\ positions = OpenRows
    BY <1>1, <2>1 DEF Floor, OpenRows, Placing
  <2> QED
    BY <2>1, <2>2 DEF Calm
<1>16. CASE EnterSizing
  <2>1. /\ pc = "size" /\ peak' = LargerOf(peak, bankroll) /\ UNCHANGED <<bankroll, history, rows, turn>>
        /\ IF DrawdownAtLeast(EmergencyPct)
           THEN pc' = "halt" /\ UNCHANGED mult
           ELSE pc' = "place" /\ mult' = Multiplier
    BY <1>16 DEF EnterSizing
  <2>2. /\ turn = 0 /\ ~ history.emergency /\ history.highest <= peak /\ bankroll <= peak
        /\ 100 * (peak - Floor) < ep /\ 100 * (peak - bankroll) < ep
        /\ 10000 * (bankroll - Floor) <= cp
    BY <2>1 DEF Calm
  <2>3. peak' = peak
    BY <1>2, <2>1, <2>2 DEF LargerOf
  <2>4. pc' = "place" /\ mult' = Multiplier
    <3>1. ~ DrawdownAtLeast(EmergencyPct)
      BY <1>2, <1>4, <2>2 DEF DrawdownAtLeast
    <3> QED
      BY <2>1, <3>1
  <2>5. Floor' = Floor
    BY <2>1 DEF Floor
  <2>6. /\ bankroll' <= bankroll /\ bankroll <= peak' /\ Recorded' = 0
        /\ Multiplier > 0 => /\ 100 * (peak - bankroll) < StopPct * peak
                             /\ 100 * (peak - bankroll) >= ReducePct * peak =>
                                  Multiplier * ((StopPct - ReducePct) * peak)
                                    <= 100 * (StopPct * peak - 100 * (peak - bankroll))
    BY <1>2, <2>1, <2>2, <2>3, <2>4, MultiplierBrakes DEF Recorded
  <2>7. 100 * (10000 * (bankroll - Floor')) <= 100 * (Charges * peak') + Recorded' * (PerOrder * (mult' * peak'))
    <3>1. 100 * (10000 * (bankroll - Floor)) <= 100 * cp
      <4> HIDE DEF cp
      <4> QED
        BY <1>2, <1>3, <1>4, <2>2 DEF cp
    <3> DEFINE z == PerOrder * (mult' * peak')
    <3>2. z \in Int
      <4>1. FeePct \in Nat /\ MaxPositionPct \in Nat
        BY CycleAssumption
      <4>2. PerOrder \in Nat
        <5>1. 100 + 2 * FeePct \in Nat
          BY <4>1
        <5> QED
          BY <4>1, <5>1, Product DEF PerOrder
      <4>3. mult' \in Nat
        <5>1. mult' \in 0..100
          BY <1>1 DEF Types, TypeOK
        <5>2. 0..100 \subseteq Nat
          OBVIOUS
        <5> QED
          BY <5>1, <5>2
      <4>4. mult' * peak' \in Nat
        BY <1>2, <4>3, Product
      <4> QED
        BY <4>2, <4>4, Product
    <3>3. Recorded' * z = 0
      <4> HIDE DEF z
      <4> QED
        BY <2>6, <3>2
    <3> HIDE DEF z
    <3>4. 100 * (10000 * (bankroll - Floor')) <= 100 * (Charges * peak') + Recorded' * z
      BY <1>4, <2>3, <2>5, <3>1, <3>3
    <3> QED
      BY <3>4 DEF z
  <2>8. \E b \in 0..peak' : PlacedFrom(b)'
    <3>1. bankroll \in 0..peak
      BY <1>2, <2>2
    <3>2. PICK b \in 0..peak : b = bankroll
      BY <3>1
    <3>3. Braked(b)'
      BY <2>3, <2>4, <2>6, <3>2 DEF Braked
    <3>4. bankroll' <= b /\ b <= peak'
      BY <2>6, <3>2
    <3>5. 100 * (10000 * (b - Floor')) <= 100 * (Charges * peak') + Recorded' * (PerOrder * (mult' * peak'))
      BY <2>7, <3>2
    <3>6. PlacedFrom(b)'
      BY <3>3, <3>4, <3>5 DEF PlacedFrom
    <3> QED
      BY <2>3, <3>6
  <2>9. turn' = 0 /\ TopN \in Nat
    BY <2>1, <2>2, CycleAssumption
  <2> QED
    BY <1>2, <2>1, <2>2, <2>3, <2>4, <2>5, <2>8, <2>9 DEF Calm
<1>17. CASE PlaceOrder
  <2>1. /\ pc = "place" /\ pc' = "record" /\ turn < TopN /\ turn' = turn + 1
        /\ UNCHANGED <<bankroll, peak, mult, history, rows>>
    BY <1>17 DEF PlaceOrder
  <2>2. LET o == used + 1 IN
        /\ used' = o /\ orders'[o].size \in Nat /\ mult > 0
        /\ 10000 * orders'[o].size <= (bankroll * MaxPositionPct) * mult
    BY <1>1, <1>17, PlacedIs
  <2>3. /\ ~ history.emergency /\ history.highest <= peak /\ bankroll <= peak
        /\ 100 * (peak - Floor) < EmergencyPct * peak
        /\ \E b \in 0..peak : PlacedFrom(b)
    BY <2>1 DEF Calm
  <2>4. Floor' = Floor
    BY <2>1 DEF Floor
  <2>5. Recorded' = Recorded
    BY <1>2, <2>1 DEF Recorded
  <2>6. \E b \in 0..peak' : PlacedFrom(b)'
    <3>1. PICK b \in 0..peak : PlacedFrom(b)
      BY <2>3
    <3>2. PlacedFrom(b)'
      BY <2>1, <2>4, <2>5, <3>1 DEF PlacedFrom, Braked
    <3> QED
      BY <2>1, <3>1, <3>2
  <2>7. 10000 * orders'[used'].size <= MaxPositionPct * (mult' * peak')
    <3> DEFINE n == orders'[used + 1].size
    <3>1. n \in Nat /\ 10000 * n <= (bankroll * MaxPositionPct) * mult /\ MaxPositionPct \in Nat
      BY <2>2, CycleAssumption
    <3>2. (bankroll * MaxPositionPct) * mult <= MaxPositionPct * (mult * peak)
      <4>1. mult * MaxPositionPct \in Nat /\ mult \in Nat
        BY <1>2, <3>1, Product
      <4> DEFINE k == mult * MaxPositionPct
      <4>2. k * bankroll <= k * peak
        <5>1. k \in Nat
          BY <4>1
        <5> HIDE DEF k
        <5> QED
          BY <1>2, <2>3, <5>1, ShareGrows
      <4>3. \A i, j, m \in Nat : (i * m) * j = (j * m) * i /\ m * (j * i) = (j * m) * i
        OBVIOUS
      <4> QED
        BY <1>2, <3>1, <4>1, <4>2, <4>3
    <3>3. (bankroll * MaxPositionPct) * mult \in Int /\ MaxPositionPct * (mult * peak) \in Int
      <4>1. bankroll \in Nat /\ peak \in Nat /\ mult \in Nat /\ MaxPositionPct \in Nat
        BY <1>2, <3>1
      <4>2. bankroll * MaxPositionPct \in Nat /\ mult * peak \in Nat
        BY ONLY <4>1, Product
      <4> QED
        BY ONLY <4>1, <4>2, Product
    <3> DEFINE x == (bankroll * MaxPositionPct) * mult
               y == MaxPositionPct * (mult * peak)
    <3>4. 10000 * n <= y
      <4>1. 10000 * n <= x /\ x <= y /\ x \in Int /\ y \in Int
        BY <3>1, <3>2, <3>3
      <4> HIDE DEF n, x, y
      <4> QED
        BY <3>1, <4>1
    <3> QED
      BY <2>1, <2>2, <3>4
  <2>8. turn' \in Nat /\ turn' > 0 /\ turn' <= TopN /\ mult' > 0
    BY <1>2, <2>1, <2>2, CycleAssumption
  <2> QED
    BY <2>1, <2>3, <2>4, <2>6, <2>7, <2>8 DEF Calm
<1>18. CASE Record
  <2> DEFINE n == orders[used].size
             f == BothFees(n)
             z == PerOrder * (mult * peak)
             y == MaxPositionPct * (mult * peak)
  <2>1. /\ pc = "record" /\ pc' = "place" /\ UNCHANGED <<peak, mult, turn, used, history>>
        /\ bankroll' = (IF orders[used].st = "filled" THEN LargerOf(0, bankroll - n) ELSE bankroll)
    BY <1>18 DEF Record
  <2>2. /\ n \in Nat /\ f \in Nat /\ Floor' = Floor - (n + f)
    BY <1>1, <1>18, FloorSinks
  <2>3. /\ ~ history.emergency /\ history.highest <= peak /\ bankroll <= peak
        /\ turn > 0 /\ turn <= TopN /\ mult > 0
        /\ 10000 * n <= y
        /\ \E b \in 0..peak : PlacedFrom(b)
    BY <2>1 DEF Calm
  <2>4. bankroll' <= bankroll
    BY <1>2, <2>1, <2>2 DEF LargerOf
  <2>5. PICK b \in 0..peak : PlacedFrom(b)
    BY <2>3
  <2>6. y \in Nat /\ z \in Nat /\ z = y * (100 + 2 * FeePct) /\ FeePct \in Nat
    <3>1. FeePct \in Nat /\ MaxPositionPct \in Nat
      BY CycleAssumption
    <3>2. 100 + 2 * FeePct \in Nat /\ mult * peak \in Nat
      BY <1>2, <3>1, Product
    <3>3. \A i, j, k \in Nat : (i * j) * k = (i * k) * j
      OBVIOUS
    <3>4. y \in Nat /\ PerOrder \in Nat
      BY <3>1, <3>2, Product DEF PerOrder
    <3> DEFINE mp == mult * peak
    <3>5. PerOrder * mp = (MaxPositionPct * mp) * (100 + 2 * FeePct)
      <4> DEFINE c == 100 + 2 * FeePct
      <4> HIDE DEF c, mp
      <4>1. PerOrder * mp = (MaxPositionPct * c) * mp
        BY DEF PerOrder, c
      <4>2. (MaxPositionPct * c) * mp = (MaxPositionPct * mp) * c
        BY <3>1, <3>2, <3>3 DEF mp, c
      <4> QED
        BY <4>1, <4>2 DEF c
    <3> QED
      BY <3>1, <3>2, <3>4, <3>5, Product
  <2>7. 100 * (10000 * (n + f)) <= z
    <3>1. 100 * FeeOn(n) <= n * FeePct /\ FeeOn(n) \in Nat /\ f = 2 * FeeOn(n) /\ n * FeePct \in Nat
      BY <2>2, <2>6, FeeIs, Product DEF BothFees
    <3> DEFINE nf == n * FeePct
               yf == y * FeePct
    <3>2. 10000 * nf <= yf
      <4>1. FeePct * (10000 * n) <= FeePct * y
        <5> DEFINE m == 10000 * n
        <5>1. m \in Int /\ m <= y
          BY <2>2, <2>3
        <5> HIDE DEF m, y, n
        <5>2. FeePct * m <= FeePct * y
          BY <2>6, <5>1, ShareGrows
        <5> QED
          BY <5>2 DEF m
      <4>2. FeePct * (10000 * n) = 10000 * (n * FeePct) /\ FeePct * y = y * FeePct
        <5> HIDE DEF y, n
        <5> QED
          BY <2>2, <2>6
      <4> QED
        BY <4>1, <4>2
    <3>3. z = 100 * y + 2 * yf /\ yf \in Int /\ nf \in Int
      <4> HIDE DEF z, y, n
      <4> QED
        BY <2>2, <2>6
    <3> HIDE DEF nf, yf, z, y, f, n
    <3> DEFINE h == FeeOn(n)
    <3>4. 100 * h <= nf /\ h \in Nat /\ f = 2 * h
      BY <3>1 DEF nf
    <3> HIDE DEF h
    <3> QED
      BY <2>2, <2>3, <2>6, <3>2, <3>3, <3>4
  <2>8. 100 * (10000 * (b - Floor')) <= 100 * (Charges * peak) + turn * z
    <3>1. 100 * (10000 * (b - Floor)) <= 100 * cp + (turn - 1) * z
      BY <2>1, <2>5 DEF PlacedFrom, Recorded
    <3>2. (turn - 1) * z = turn * z - z /\ turn * z \in Int
      <4> HIDE DEF z
      <4> QED
        BY <1>2, <2>6
    <3> DEFINE tz == turn * z
               uz == (turn - 1) * z
    <3>3. 100 * (10000 * (b - Floor)) <= 100 * cp + uz /\ uz = tz - z /\ tz \in Int
      BY <3>1, <3>2
    <3> HIDE DEF tz, uz, z, cp, n, f
    <3>4. cp \in Nat /\ b \in Int
      BY <1>2, <1>4, <2>5 DEF cp
    <3>5. 100 * (10000 * (b - Floor')) <= 100 * cp + tz
      BY <1>3, <2>2, <2>6, <2>7, <3>3, <3>4
    <3> QED
      BY <3>5 DEF tz, cp
  <2>9. /\ 100 * (peak - b) < StopPct * peak
        /\ 100 * (peak - b) >= ReducePct * peak =>
             mult * ((StopPct - ReducePct) * peak) <= 100 * (StopPct * peak - 100 * (peak - b))
    BY <2>3, <2>5 DEF PlacedFrom, Braked
  <2>10. 100 * (peak - Floor') < EmergencyPct * peak
    <3>1. turn \in 0..TopN
      BY <1>2, <2>3, CycleAssumption
    <3>2. peak \in Nat /\ peak > 0 /\ b \in 0..peak /\ Floor' \in Int /\ mult \in 0..100
      BY <1>2, <1>3, <2>5
    <3>3. 100 * (10000 * (b - Floor')) <= 100 * (Charges * peak) + turn * (PerOrder * (mult * peak))
      BY <2>8
    <3> HIDE DEF n, f, y, z, ep, cp
    <3>4. PICK sunk \in Int : sunk = Floor'
      BY <3>2
    <3>5. Committed(peak, b, sunk, mult, turn)
      BY <2>9, <3>3, <3>4 DEF Committed
    <3>6. 100 * (peak - sunk) < EmergencyPct * peak
      BY ONLY <3>1, <3>2, <3>5, EmergencyMargin, MarginHolds
    <3> QED
      BY <3>4, <3>6
  <2>11. PlacedFrom(b)'
    <3>1. Recorded' = turn
      BY <2>1 DEF Recorded
    <3>2. bankroll' <= b /\ b <= peak
      BY <1>2, <2>4, <2>5 DEF PlacedFrom
    <3>3. Braked(b)'
      BY <2>1, <2>9 DEF Braked
    <3> QED
      BY <2>1, <2>8, <3>1, <3>2, <3>3 DEF PlacedFrom
  <2>12. bankroll' <= peak
    BY <1>2, <2>3, <2>4
  <2> QED
    BY <2>1, <2>3, <2>5, <2>10, <2>11, <2>12 DEF Calm
<1>19. CASE Account
  <2> DEFINE eq == EmergencyPct * peak'
             cq == Charges * peak'
  <2>1. /\ pc = "account" /\ pc' = "expire" /\ UNCHANGED rows
        /\ bankroll' = LargerOf(0, Initial + Realised - Capital(positions))
        /\ peak' = LargerOf(peak, bankroll')
        /\ history' = [history EXCEPT !.highest = LargerOf(@, bankroll')]
    BY <1>19 DEF Account
  <2>2. /\ history'.highest = LargerOf(history.highest, bankroll')
        /\ history'.disturbed = history.disturbed /\ history'.emergency = history.emergency
    <3> DEFINE top == LargerOf(history.highest, bankroll')
    <3>1. history' = [history EXCEPT !.highest = top]
      BY <2>1
    <3> HIDE DEF top
    <3>2. /\ history'.highest = top
          /\ history'.disturbed = history.disturbed /\ history'.emergency = history.emergency
      BY <1>1, <3>1 DEF Types
    <3> QED
      BY <3>2 DEF top
  <2>3. /\ ~ history.emergency /\ history.highest <= peak /\ bankroll <= peak
        /\ 100 * (peak - Floor) < ep /\ positions = OpenRows
    BY <2>1, <2>2 DEF Calm
  <2>4. bankroll' = LargerOf(0, Cash) /\ Floor' = Floor
    BY <2>1, <2>3 DEF Cash, Floor
  <2>5. Cash \in Int /\ Floor <= Cash /\ 10000 * (Cash - Floor) <= Charges * history.highest
    BY <1>1, FloorIs
  <2>6. /\ EmergencyPct \in Nat /\ EmergencyPct <= 100 /\ Charges \in Nat
        /\ Charges < 100 * EmergencyPct
    <3>1. EmergencyPct \in Nat /\ StopPct \in Nat /\ FeePct \in Nat /\ MaxPortfolioPct \in Nat
      BY CycleAssumption
    <3>2. 2 * FeePct \in Nat
      BY <3>1
    <3>3. Charges \in Nat
      BY <3>1, <3>2, Product DEF Charges
    <3> QED
      BY <3>1, <3>3 DEF EmergencyMargin
  <2>7. Floor > 0
    <3>1. peak * EmergencyPct <= peak * 100
      BY <1>2, <2>6, ShareGrows
    <3>2. peak * EmergencyPct = ep
      BY <1>2, <2>6
    <3> HIDE DEF ep
    <3>3. ep <= 100 * peak
      BY <1>2, <3>1, <3>2
    <3> QED
      BY <1>2, <1>3, <1>4, <2>3, <3>3 DEF ep
  <2>8. bankroll' = Cash /\ bankroll' >= Floor
    BY <1>3, <2>4, <2>5, <2>7 DEF LargerOf
  <2>9. /\ peak <= peak' /\ bankroll' <= peak' /\ (peak' = peak \/ peak' = bankroll')
        /\ history'.highest <= peak' /\ history.highest <= peak'
    BY <1>2, <2>1, <2>2, <2>3 DEF LargerOf
  <2>10. eq \in Int /\ cq \in Int /\ cq < 100 * eq /\ 10000 * (Cash - Floor) <= cq
    <3>1. Charges * history.highest <= cq
      <4>1. Charges \in Nat /\ history.highest \in Int /\ peak' \in Int /\ history.highest <= peak'
        BY <1>2, <2>6, <2>9
      <4> QED
        BY ONLY <4>1, ShareGrows
    <3>2. cq \in Int /\ eq \in Int /\ Charges * history.highest \in Int
      BY <1>2, <2>6, Product
    <3>3. cq < 100 * eq
      <4> DEFINE k == 100 * EmergencyPct - Charges
      <4>1. peak' \in Nat /\ k \in Int /\ 1 <= k
        BY <1>2, <2>6
      <4>2. 1 \in Int
        OBVIOUS
      <4>3. peak' * 1 <= peak' * k
        <5> HIDE DEF k
        <5> QED
          BY ONLY <4>1, <4>2, ShareGrows
      <4>4. peak' * (100 * EmergencyPct - Charges) = 100 * eq - cq
        BY <1>2, <2>6
      <4> QED
        BY <1>2, <3>2, <4>3, <4>4
    <3> DEFINE ch == Charges * history.highest
    <3>4. ch <= cq /\ ch \in Int /\ 10000 * (Cash - Floor) <= ch
      BY <2>5, <3>1, <3>2
    <3> HIDE DEF ch, cq, eq
    <3>5. 10000 * (Cash - Floor) <= cq
      BY <1>3, <2>5, <3>2, <3>4
    <3> QED
      BY <3>2, <3>3, <3>5
  <2>11. 100 * (peak' - Floor) < eq
    <3>1. CASE peak' = peak
      BY <2>3, <3>1
    <3>2. CASE peak' = bankroll'
      <4>1. 10000 * (peak' - Floor) <= cq
        BY <2>8, <2>10, <3>2
      <4> DEFINE q == peak' - Floor
      <4>2. q \in Int /\ 10000 * q <= cq
        BY <1>2, <1>3, <4>1
      <4> HIDE DEF eq, cq, q
      <4>3. 100 * q < eq
        BY <2>10, <4>2
      <4> QED
        BY <4>3 DEF q
    <3> QED
      BY <2>9, <3>1, <3>2
  <2>12. 100 * (peak' - bankroll') < eq
    <3>1. peak' - bankroll' <= peak' - Floor /\ peak' - Floor \in Int /\ peak' - bankroll' \in Int
      <4>1. peak' \in Int /\ bankroll' \in Int /\ Floor \in Int /\ Floor <= bankroll'
        BY <1>2, <1>3, <2>8
      <4>2. \A i, j, k \in Int : j <= k => i - k <= i - j /\ i - k \in Int /\ i - j \in Int
        OBVIOUS
      <4> QED
        BY ONLY <4>1, <4>2
    <3> DEFINE q == peak' - Floor
               r == peak' - bankroll'
    <3>2. r <= q /\ q \in Int /\ r \in Int /\ 100 * q < eq /\ eq \in Int
      BY <2>10, <2>11, <3>1
    <3> HIDE DEF eq, cq, q, r
    <3>3. 100 * r < eq
      BY <3>2
    <3> QED
      BY <3>3 DEF r
  <2>13. 10000 * (bankroll' - Floor') <= cq
    BY <2>4, <2>8, <2>10
  <2>14. 100 * (peak' - Floor') < eq
    BY <2>4, <2>11
  <2> QED
    BY <2>1, <2>2, <2>3, <2>9, <2>12, <2>13, <2>14 DEF Calm
<1> QED
  BY <1>7, <1>8, <1>9, <1>10, <1>11, <1>12, <1>13, <1>14, <1>15, <1>16, <1>17, <1>18, <1>19
  DEF Next, RunCycle, Process, Lifecycle, Trade

\* Amounts that are all nothing add up to nothing.
LEMMA NothingTotal ==
  ASSUME NEW w \in [Orders -> Int], \A o \in Orders : w[o] = 0
  PROVE  Total(w, Orders) = 0
<1> DEFINE T == {s \in SUBSET Orders : Total(w, s) = 0}
<1>1. ASSUME NEW s \in SUBSET Orders, \A x \in s : s \ {x} \in T PROVE s \in T
  <2>1. CASE s = {}
    BY <2>1, Totals
  <2>2. CASE s # {}
    <3>1. PICK x \in s : TRUE
      BY <2>2
    <3>2. Total(w, s) = w[x] + Total(w, s \ {x}) /\ Total(w, s \ {x}) = 0 /\ w[x] = 0
      BY <1>1, <3>1, Totals
    <3> QED
      BY <3>2
  <2> QED
    BY <2>1, <2>2
<1> HIDE DEF T
<1>2. Orders \in T
  BY <1>1, OrdersFinite, SetBySet
<1> QED
  BY <1>2 DEF T

\* A process starts at its peak, with nothing in the table.
LEMMA CalmInit ==
  ASSUME Init
  PROVE  Calm /\ \A o \in Orders : Sized(o)
<1>1. /\ pc = "idle" /\ bankroll = Initial /\ peak = Initial /\ history = NewHistory
      /\ rows = [o \in Orders |-> NoRow] /\ orders = [o \in Orders |-> NoOrder] /\ turn = 0
  BY DEF Init
<1>2. /\ Initial \in Nat /\ Initial > 0 /\ EmergencyPct \in Nat /\ EmergencyPct > 0
      /\ FeePct \in Nat /\ MaxPortfolioPct \in Nat
  BY CycleAssumption
<1>3. Floor = Initial
  <2>1. \A o \in Orders : Worth(rows[o]) = 0
    BY <1>1 DEF Worth, NoRow
  <2>2. Worths \in [Orders -> Int] /\ \A o \in Orders : Worths[o] = 0
    BY <2>1 DEF Worths
  <2>3. Total(Worths, Orders) = 0
    BY <2>2, NothingTotal
  <2>4. Floor = Initial + Total(Worths, Orders)
    BY DEF Floor, Worths
  <2> QED
    BY <1>2, <2>3, <2>4
<1>4. history.highest = Initial /\ ~ history.emergency
  BY <1>1 DEF NewHistory
<1>5. 100 * (peak - Floor) < EmergencyPct * peak /\ 100 * (peak - bankroll) < EmergencyPct * peak
  <2>1. peak - Floor = 0 /\ peak - bankroll = 0 /\ peak = Initial
    BY <1>1, <1>2, <1>3
  <2>2. 0 < EmergencyPct * Initial
    <3>1. Initial * 1 <= Initial * EmergencyPct /\ Initial * EmergencyPct = EmergencyPct * Initial
      BY <1>2, ShareGrows
    <3>2. EmergencyPct * Initial \in Nat
      BY <1>2, Product
    <3> QED
      BY <1>2, <3>1, <3>2
  <2> QED
    BY <2>1, <2>2
<1>6. 10000 * (bankroll - Floor) <= Charges * peak
  <2>1. 2 * FeePct \in Nat
    BY <1>2
  <2>2. Charges \in Nat
    BY <1>2, <2>1, Product DEF Charges
  <2>3. Charges * peak \in Nat
    BY <1>1, <1>2, <2>2, Product
  <2>4. bankroll - Floor = 0
    BY <1>1, <1>2, <1>3
  <2> QED
    BY <2>3, <2>4
<1>7. Calm
  BY <1>1, <1>2, <1>4, <1>5, <1>6 DEF Calm
<1>8. ASSUME NEW o \in Orders PROVE Sized(o)
  <2>1. rows[o] = NoRow /\ orders[o] = NoOrder
    BY <1>1
  <2> QED
    BY <2>1 DEF Sized, Known, NoRow, NoOrder
<1> QED
  BY <1>7, <1>8

\* Whatever the fills, the markets and the days bring, a process that never failed and never
\* restarted does not meet its emergency threshold: the tiers below it stop the sizing first
\* (DrawdownManager.get_multiplier).
THEOREM CycleEmergencyNeedsDisturbance ==
  ASSUME EmergencyMargin PROVE Spec => []EmergencyNeedsDisturbance
<1>1. Init => CalmInv
  BY CycleInit, CalmInit DEF CalmInv
<1>2. CalmInv /\ [Next]_vars => CalmInv'
  <2> SUFFICES ASSUME CalmInv, [Next]_vars PROVE CalmInv'
    OBVIOUS
  <2>1. CycleInv'
    BY CycleStep DEF CalmInv
  <2>2. Types /\ Queue /\ Placing /\ \A o \in Orders : Books(o) /\ Fees(o)
    BY DEF CalmInv, CycleInv
  <2>3. \A o \in Orders : Sized(o)'
    BY <2>2, SizedStep DEF CalmInv
  <2>4. Calm'
    BY <2>1, CalmStep DEF CalmInv
  <2> QED
    BY <2>1, <2>3, <2>4 DEF CalmInv
<1>3. CalmInv => EmergencyNeedsDisturbance
  BY DEF CalmInv, Calm, EmergencyNeedsDisturbance
<1> QED
  BY <1>1, <1>2, <1>3, PTL DEF Spec

=============================================================================
