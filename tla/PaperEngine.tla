----------------------------- MODULE PaperEngine -----------------------------
(***************************************************************************)
(* execution/paper_engine.py: PaperTradingEngine over book snapshots.      *)
(* Every order walks the snapshot as given, untouched by the other orders, *)
(* so one order id stands for each.  A side of the book maps each price to *)
(* the size resting there (0: no such level), which is what sorting its    *)
(* levels amounts to.  Fees and counters are left out.  Sizes and drawn    *)
(* fills are whole, so rounding a fill to two decimals changes nothing and *)
(* is left out; prices are in cents.                                       *)
(***************************************************************************)
EXTENDS Integers, FiniteSetsExt

CONSTANTS PaperSizes,    \* sizes the caller asks for
          PaperPrices,   \* prices of orders and of levels
          Depths,        \* sizes of a level
          MaxSnapshots   \* bound: calls of simulate_fills

ASSUME PaperAssumption ==
    /\ PaperSizes \subseteq Nat \ {0} /\ PaperPrices \subseteq 1..99
    /\ Depths \subseteq Nat /\ 0 \in Depths /\ MaxSnapshots \in Nat

VARIABLES paper,  \* the order of _orders, with what its fills cost; NoPaper: none
          shown   \* calls of simulate_fills so far

paperVars == <<paper, shown>>

NoPaper == [status |-> "none"]
PaperOrders ==
    [side : {"BUY", "SELL"}, price : PaperPrices, size : PaperSizes, filled : Nat,
     status : {"open", "filled", "cancelled"}, cost : Nat, cut : BOOLEAN]

PaperTypeOK == paper \in PaperOrders \cup {NoPaper} /\ shown \in 0..MaxSnapshots

PaperInit == paper = NoPaper /\ shown = 0

-----------------------------------------------------------------------------
\* The levels a limit reaches, and those of them the walk takes before level p.
InReach(order, side) ==
    {p \in PaperPrices : side[p] > 0 /\ IF order.side = "BUY" THEN p <= order.price ELSE p >= order.price}
Before(order, side, p) ==
    {q \in InReach(order, side) : IF order.side = "BUY" THEN q < p ELSE q > p}

Wanted(order) == order.size - order.filled
Summed(amount, S) == MapThenSumSet(LAMBDA p : amount[p], S)

\* Mutant of Taken: the walk offers every level the whole remainder.
TakenOfEachLevel(order, side, p) == Min({Wanted(order), side[p]})

\* min(remaining - fill_size, level_size) at level p of the walk.
Taken(order, side, p) ==
    Max({0, Min({Wanted(order) - Summed(side, Before(order, side, p)), side[p]})})

WalkSize(order, side) == Summed([p \in PaperPrices |-> Taken(order, side, p)], InReach(order, side))
WalkCost(order, side) == Summed([p \in PaperPrices |-> p * Taken(order, side, p)], InReach(order, side))

\* _try_fill: a miss, nothing in reach, or the walk; a walk above 10 may be cut to between 30
\* and 80 per cent of its size, the cost of the whole walk staying on it.
Filled(order, side) ==
    LET size == WalkSize(order, side)
        Fill(n, cut) == [order EXCEPT !.filled = @ + n, !.cost = @ + WalkCost(order, side),
                                      !.cut = @ \/ cut,
                                      !.status = IF order.filled + n >= order.size THEN "filled" ELSE @]
    IN  {order}
        \cup (IF size > 0 THEN {Fill(size, FALSE)} ELSE {})
        \cup (IF size > 10 THEN {Fill((size * cut) \div 100, TRUE) : cut \in {30, 80}} ELSE {})

\* submit_order: an id that is taken is overwritten.
SubmitPaper(side, price, size) ==
    /\ paper' = [side |-> side, price |-> price, size |-> size, filled |-> 0,
                 status |-> "open", cost |-> 0, cut |-> FALSE]
    /\ UNCHANGED shown

CancelPaper ==
    /\ paper.status = "open"
    /\ paper' = [paper EXCEPT !.status = "cancelled"]
    /\ UNCHANGED shown

SimulateFills(bids, asks) ==
    /\ shown < MaxSnapshots /\ shown' = shown + 1
    /\ paper.status = "open"
    /\ paper' \in Filled(paper, IF paper.side = "BUY" THEN asks ELSE bids)

ResetPaper ==
    /\ paper # NoPaper
    /\ paper' = NoPaper
    /\ UNCHANGED shown

PaperNext ==
    \/ \E side \in {"BUY", "SELL"}, price \in PaperPrices, size \in PaperSizes :
          SubmitPaper(side, price, size)
    \/ CancelPaper
    \/ \E bids, asks \in [PaperPrices -> Depths] : SimulateFills(bids, asks)
    \/ ResetPaper

PaperSpec == PaperInit /\ [][PaperNext]_paperVars

-----------------------------------------------------------------------------
\* Safety.  However many snapshots an order is filled over, it never gets more than it asked
\* for, it is closed exactly when it has it all (or was cancelled), and what it paid is within
\* its limit price, unless the partial-fill draw ever cut one of its fills.
PaperFillsAreSound ==
    paper # NoPaper =>
        /\ paper.filled <= paper.size
        /\ paper.status # "cancelled" => (paper.status = "filled" <=> paper.filled = paper.size)
        /\ ~paper.cut => IF paper.side = "BUY" THEN paper.cost <= paper.filled * paper.price
                                            ELSE paper.cost >= paper.filled * paper.price
=============================================================================
