--------------------------- MODULE BracketPosition ---------------------------
(***************************************************************************)
(* What the order executor promises of the position behind each entry      *)
(* order: it is bought in parts that only add up, and its bracket sells it *)
(* at most once, at most as much as was bought, never before.  A process   *)
(* that ends forgets all positions.                                        *)
(***************************************************************************)
EXTENDS Naturals

CONSTANT Entries

VARIABLES
  bought,  \* what each entry has bought
  sold     \* what the bracket of each entry has sold

vars == <<bought, sold>>

Init ==
  /\ bought = [e \in Entries |-> 0]
  /\ sold = [e \in Entries |-> 0]

Buy(e) ==
  /\ bought' \in [Entries -> Nat]
  /\ bought'[e] > bought[e]
  /\ bought' = [bought EXCEPT ![e] = bought'[e]]
  /\ UNCHANGED sold

Sell(e) ==
  /\ sold[e] = 0
  /\ sold' = [sold EXCEPT ![e] = sold'[e]]
  /\ 0 < sold'[e] /\ sold'[e] <= bought[e]
  /\ UNCHANGED bought

Forget == bought' = [e \in Entries |-> 0] /\ sold' = [e \in Entries |-> 0]

Next == (\E e \in Entries : Buy(e) \/ Sell(e)) \/ Forget

Spec == Init /\ [][Next]_vars

=============================================================================
