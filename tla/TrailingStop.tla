---------------------------- MODULE TrailingStop ----------------------------
(***************************************************************************)
(* execution/trailing_stop.py: one TrailingStop, of either side and either *)
(* mode, under a sequence of price updates and resets.  Prices are in      *)
(* units of the four decimals the code rounds stops to.                    *)
(***************************************************************************)
EXTENDS Integers

CONSTANTS Levels,   \* prices the market may show
          Trail,    \* trail_amount: price units, or per cent
          ShowsMax  \* bound: updates and resets in a run

ASSUME TrailAssumption ==
    Levels \subseteq Nat \ {0} /\ Trail \in 1..100 /\ ShowsMax \in Nat

VARIABLES order,   \* side and trail_mode, fixed at creation
          mark,    \* _high_water of a SELL stop, _low_water of a BUY stop
          stop,    \* _stop_price
          fired,   \* _triggered
          trigger, \* _trigger_price, 0 when there is none
          best,    \* history: the best price shown since the stop was armed
          lastQuote, \* history: the last price held against the armed stop, 0 before any
          shows    \* updates and resets so far

trailVars == <<order, mark, stop, fired, trigger, best, lastQuote, shows>>

TrailTypeOK ==
    /\ order \in [side : {"SELL", "BUY"}, mode : {"amount", "percent"}]
    /\ mark \in Levels /\ best \in Levels /\ stop \in Int
    /\ fired \in BOOLEAN /\ trigger \in Levels \cup {0} /\ lastQuote \in Levels \cup {0}
    /\ shows \in 0..ShowsMax

\* round(x / 100), ties aside.
Hundredth(x) == (x + 50) \div 100

\* _calculate_stop_sell and _calculate_stop_buy.
CalculateStop(price) ==
    CASE order.side = "SELL" /\ order.mode = "amount"  -> price - Trail
      [] order.side = "SELL" /\ order.mode = "percent" -> Hundredth(price * (100 - Trail))
      [] order.side = "BUY"  /\ order.mode = "amount"  -> price + Trail
      [] order.side = "BUY"  /\ order.mode = "percent" -> Hundredth(price * (100 + Trail))

\* Better: further in the direction the stop trails.
Better(p, q)  == IF order.side = "SELL" THEN p > q ELSE p < q
Crossed(p, s) == IF order.side = "SELL" THEN p <= s ELSE p >= s

TrailInit ==
    /\ order \in [side : {"SELL", "BUY"}, mode : {"amount", "percent"}]
    /\ mark \in Levels /\ stop = CalculateStop(mark)
    /\ fired = FALSE /\ trigger = 0 /\ best = mark /\ lastQuote = 0 /\ shows = 0

\* Mutant of Held: a price that only touches the stop does not trigger it.
HeldStrictly(p) ==
    /\ fired' = Better(stop', p)
    /\ trigger' = IF fired' THEN p ELSE 0

\* The price held against the stop, which the same update may have moved.
Held(p) ==
    /\ fired' = Crossed(p, stop')
    /\ trigger' = IF fired' THEN p ELSE 0

\* update_price: once triggered it only reports so; a new best moves the mark, and the stop
\* if that tightens it; then the price is held against the stop.
UpdatePrice(p) ==
    /\ shows < ShowsMax /\ shows' = shows + 1
    /\ ~fired
    /\ mark' = IF Better(p, mark) THEN p ELSE mark
    /\ stop' = IF Better(p, mark) /\ Better(CalculateStop(p), stop) THEN CalculateStop(p) ELSE stop
    /\ Held(p)
    /\ best' = (IF Better(p, best) THEN p ELSE best) /\ lastQuote' = p
    /\ UNCHANGED order

Rearmed(p) == mark' = p /\ stop' = CalculateStop(p)

ResetStop(p) ==
    /\ shows < ShowsMax /\ shows' = shows + 1
    /\ Rearmed(p)
    /\ fired' = FALSE /\ trigger' = 0 /\ best' = p /\ lastQuote' = 0
    /\ UNCHANGED order

TrailNext == \E p \in Levels : UpdatePrice(p) \/ ResetStop(p)

TrailSpec == TrailInit /\ [][TrailNext]_trailVars

-----------------------------------------------------------------------------
\* Safety.  The stop is where the best price since it was armed puts it, never behind, across
\* resets and whatever path the price took; and the stop has fired exactly if the last price it
\* was shown gives back the whole trail from that best price: the first price that does fires
\* it, no other one does, and the trigger recorded is that price.
TrailsTheBest ==
    /\ stop = CalculateStop(best)
    /\ fired <=> lastQuote # 0 /\ Crossed(lastQuote, CalculateStop(best))
    /\ trigger = IF fired THEN lastQuote ELSE 0
=============================================================================
