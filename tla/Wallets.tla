------------------------------ MODULE Wallets -------------------------------
(***************************************************************************)
(* infra/wallet_manager.py: traders ask for a wallet, trade, and record    *)
(* what they used afterwards, so several can be sent to the same wallet    *)
(* before any of them has recorded.                                        *)
(***************************************************************************)
EXTENDS Integers, Sequences, FiniteSets

CONSTANTS Addresses,   \* the wallets, in the order they were configured (a sequence)
          Allocation,  \* weight of each
          Traders,     \* coroutines that use the manager
          MaxAmount,   \* largest amount one trade records
          MaxTrades    \* bound: trades of a run

ASSUME WalletAssumption ==
    /\ Addresses \in Seq(STRING) /\ Addresses # <<>>
    /\ \A i, j \in DOMAIN Addresses : Addresses[i] = Addresses[j] => i = j
    /\ \A i \in DOMAIN Addresses : Allocation[Addresses[i]] \in Nat \ {0}
    /\ MaxAmount \in Nat \ {0} /\ MaxTrades \in Nat /\ IsFiniteSet(Traders)

VARIABLES strategy,     \* the strategy the traders pass to get_wallet
          utilization,  \* per wallet
          rrIndex,      \* _rr_index
          using,        \* per trader, the wallet it was given and has not recorded on, if any
          picks         \* history: times each wallet was handed out

walletVars == <<strategy, utilization, rrIndex, using, picks>>

Wallet == {Addresses[i] : i \in DOMAIN Addresses}

WalletTypeOK ==
    /\ strategy \in {"round_robin", "min_utilization", "weighted"}
    /\ utilization \in [Wallet -> Nat] /\ picks \in [Wallet -> Nat]
    /\ rrIndex \in Nat /\ using \in [Traders -> {{}} \cup {{w} : w \in Wallet}]

WalletInit ==
    /\ strategy \in {"round_robin", "min_utilization", "weighted"}
    /\ utilization = [w \in Wallet |-> 0] /\ rrIndex = 0
    /\ using = [t \in Traders |-> {}] /\ picks = [w \in Wallet |-> 0]

\* utilization per unit of weight; the 1e-9 added to a utilization decides between equal
\* ratios, for the greater weight.
Lower(weight, a, b) ==
    LET x == utilization[a] * weight[b]
        y == utilization[b] * weight[a] IN
    x < y \/ (x = y /\ weight[a] > weight[b])

\* min() keeps the first of equals.
First(weight) ==
    CHOOSE i \in DOMAIN Addresses :
        /\ \A j \in DOMAIN Addresses : ~Lower(weight, Addresses[j], Addresses[i])
        /\ \A j \in 1..(i - 1) : Lower(weight, Addresses[i], Addresses[j])

Selected ==
    CASE strategy = "round_robin" -> Addresses[(rrIndex % Len(Addresses)) + 1]
      [] strategy = "min_utilization" -> Addresses[First([w \in Wallet |-> 1])]
      [] strategy = "weighted" -> Addresses[First(Allocation)]

GetWallet(t) ==
    /\ using[t] = {} /\ rrIndex < MaxTrades
    /\ using' = [using EXCEPT ![t] = {Selected}]
    /\ picks' = [picks EXCEPT ![Selected] = @ + 1]
    /\ rrIndex' = rrIndex + 1    \* read by round_robin only; elsewhere it bounds the run
    /\ UNCHANGED <<strategy, utilization>>

RecordUtilization(t, amount) ==
    /\ \E w \in using[t] : utilization' = [utilization EXCEPT ![w] = @ + amount]
    /\ using' = [using EXCEPT ![t] = {}]
    /\ UNCHANGED <<strategy, rrIndex, picks>>

\* Mutant of Zeroed: reset_utilization returns from inside its loop.
ZeroedFirst == [utilization EXCEPT ![Addresses[1]] = 0]

Zeroed == [w \in Wallet |-> 0]

ResetUtilization ==
    /\ \E w \in Wallet : utilization[w] > 0
    /\ utilization' = Zeroed
    /\ UNCHANGED <<strategy, rrIndex, using, picks>>

WalletNext ==
    \/ \E t \in Traders : GetWallet(t) \/ \E a \in 1..MaxAmount : RecordUtilization(t, a)
    \/ ResetUtilization

WalletSpec == WalletInit /\ [][WalletNext]_walletVars

-----------------------------------------------------------------------------
Outstanding == Cardinality(Traders) * MaxAmount

\* Safety.  Although traders choose on utilization that lags behind the trades in flight, no
\* wallet gets ahead of another by more than what the traders can have in flight at once (in
\* proportion to the allocations under `weighted`), and round_robin hands the wallets out
\* evenly to within one.
LoadStaysBalanced ==
    \A a, b \in Wallet :
        /\ strategy = "min_utilization" => utilization[a] <= utilization[b] + Outstanding
        /\ strategy = "weighted" =>
             utilization[a] * Allocation[b]
                <= utilization[b] * Allocation[a] + Outstanding * Allocation[b]
        /\ strategy = "round_robin" => picks[a] <= picks[b] + 1
=============================================================================
