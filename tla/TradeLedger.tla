---------------------------- MODULE TradeLedger ----------------------------
(***************************************************************************)
(* What the trades table promises the rest of the system                   *)
(* (tracking/tracker.py): an order gets at most one trade, a trade closes  *)
(* at most once, and its profit is written when it closes and never again. *)
(* The bankroll is computed from these rows, so a row that reopened or a   *)
(* profit that changed would change the money the sizer works with.        *)
(***************************************************************************)
EXTENDS Integers

CONSTANT Orders  \* the order ids

VARIABLES
  trade,    \* by order: "none", "open" or "closed"
  profit    \* by order: the realised profit, 0 until the trade closes

Init ==
  /\ trade = [o \in Orders |-> "none"]
  /\ profit = [o \in Orders |-> 0]

\* A trade is recorded for an order that has none.
Record(o) ==
  /\ trade[o] = "none"
  /\ trade' = [trade EXCEPT ![o] = "open"]
  /\ UNCHANGED profit

\* Open trades close, at whatever profit their exit prices give: one when a
\* bracket sells, several when phantom positions are closed in one pass.
Close(S) ==
  /\ \A o \in S : trade[o] = "open"
  /\ trade' = [o \in Orders |-> IF o \in S THEN "closed" ELSE trade[o]]
  /\ \A o \in Orders \ S : profit'[o] = profit[o]

Next ==
  \/ \E o \in Orders : Record(o)
  \/ \E S \in SUBSET Orders : Close(S)

Spec == Init /\ [][Next]_<<trade, profit>>

=============================================================================
