------------------------------ MODULE Slippage ------------------------------
(***************************************************************************)
(* execution/slippage.py: estimate_slippage and check_slippage_ok on the   *)
(* book as presented, sorted or not.  Prices in cents, sizes in dollars;   *)
(* the vwap and the slippage are compared as fractions, so their rounding  *)
(* to two decimals is left out.                                            *)
(***************************************************************************)
EXTENDS Integers, Sequences, FiniteSetsExt

CONSTANTS LevelPrices,  \* prices of levels
          LevelSizes,   \* their sizes
          MaxLevels,    \* bound: levels of a side
          MaxOrder,     \* bound: size of an order
          MaxSlippage   \* max_slippage_bps

ASSUME SlippageAssumption ==
    /\ LevelPrices \subseteq 1..99 /\ LevelSizes \subseteq Nat \ {0}
    /\ MaxLevels \in Nat \ {0} /\ MaxOrder \in Nat /\ MaxSlippage \in Nat

VARIABLES book,     \* bids and asks, sequences of levels
          asked,    \* the size and side asked about
          estimate  \* the SlippageEstimate, or NoEstimate before the call

slippageVars == <<book, asked, estimate>>

NoEstimate == [levels |-> -1]
Sides == UNION {[1..n -> [price : LevelPrices, size : LevelSizes]] : n \in 1..MaxLevels}

SlippageInit ==
    /\ book \in [bids : Sides \cup {<<>>}, asks : Sides]
    /\ asked = [size |-> 0, side |-> "BUY"] /\ estimate = NoEstimate

-----------------------------------------------------------------------------
\* The side to consume, as it is presented.
Consumed(side) == IF side = "BUY" THEN book.asks ELSE book.bids

\* sorted(): level i comes after level j, by its price or, at the same price, as presented.
After(levels, side, i, j) ==
    \/ IF side = "BUY" THEN levels[i].price > levels[j].price ELSE levels[i].price < levels[j].price
    \/ levels[i].price = levels[j].price /\ i > j

\* Mutant of LastOf: the levels are taken in the order they are presented in.
LastPresented(S, levels, side) == Max(S)

\* The one of some levels that the sorted walk comes to last.
LastOf(S, levels, side) == CHOOSE i \in S : \A j \in S \ {i} : After(levels, side, i, j)

NoLiquidity == [cost |-> 0, filled |-> 0, levels |-> 0, sufficient |-> FALSE]

\* One turn of the loop: a level gives min(remaining, size) until nothing remains.
Taking(acc, level, size) ==
    IF acc.filled >= size THEN acc
    ELSE LET fill == Min({size - acc.filled, level.size})
         IN  [acc EXCEPT !.cost = @ + fill * level.price, !.filled = @ + fill, !.levels = @ + 1]

\* The walk over a set of levels, in their sorted order.
Walked(levels, size, side) ==
    LET walk[S \in SUBSET DOMAIN levels] ==
            IF S = {} THEN NoLiquidity
            ELSE LET i == LastOf(S, levels, side) IN Taking(walk[S \ {i}], levels[i], size)
    IN  walk

EstimateSlippage(size, side) ==
    LET levels == Consumed(side)
        end    == Walked(levels, size, side)[DOMAIN levels]
    IN  IF book.bids = <<>> \/ book.asks = <<>> \/ end.filled <= 0
        THEN NoLiquidity
        ELSE [end EXCEPT !.sufficient = end.filled >= size]

\* check_slippage_ok: the slippage of the vwap from the midpoint of the first bid and the
\* first ask, (vwap - midpoint) / midpoint * 10000 for a BUY, multiplied out.
CheckSlippageOk(size, side) ==
    LET e     == EstimateSlippage(size, side)
        twice == Head(book.bids).price + Head(book.asks).price
        away  == IF side = "BUY" THEN 2 * e.cost - e.filled * twice ELSE e.filled * twice - 2 * e.cost
    IN  e.sufficient /\ away * 10000 <= MaxSlippage * e.filled * twice

Estimate(size, side) ==
    /\ estimate = NoEstimate
    /\ asked' = [size |-> size, side |-> side]
    /\ estimate' = EstimateSlippage(size, side)
    /\ UNCHANGED book

SlippageNext == \E size \in 0..MaxOrder, side \in {"BUY", "SELL"} : Estimate(size, side)

SlippageSpec == SlippageInit /\ [][SlippageNext]_slippageVars

SlippageTypeOK ==
    /\ asked \in [size : 0..MaxOrder, side : {"BUY", "SELL"}]
    /\ estimate = NoEstimate \/ estimate \in [cost : Nat, filled : Nat, levels : Nat, sufficient : BOOLEAN]

-----------------------------------------------------------------------------
\* The ways to take a size from the levels, and what they cost.
Across(amount) == MapThenSumSet(LAMBDA i : amount[i], DOMAIN amount)
Takes(levels, filled) ==
    {t \in [DOMAIN levels -> 0..filled] :
        (\A i \in DOMAIN levels : t[i] <= levels[i].size) /\ Across(t) = filled}
CostOf(take, levels) == Across([i \in DOMAIN levels |-> take[i] * levels[i].price])
CostsOf(levels, filled) == {CostOf(take, levels) : take \in Takes(levels, filled)}

\* Safety.  The estimate is the best the book can do: no way to take the filled size from the
\* levels is cheaper for a BUY or pays more for a SELL, whatever order the levels arrive in;
\* and an order that passes the check still passes it when it is made smaller.
EstimateIsBestExecution ==
    estimate \notin {NoEstimate, NoLiquidity} =>
        LET costs == CostsOf(Consumed(asked.side), estimate.filled) IN
        /\ estimate.cost = IF asked.side = "BUY" THEN Min(costs) ELSE Max(costs)
        /\ CheckSlippageOk(asked.size, asked.side) =>
              \A less \in 1..asked.size : CheckSlippageOk(less, asked.side)
=============================================================================
