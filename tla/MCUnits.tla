------------------------------- MODULE MCUnits -------------------------------
(***************************************************************************)
(* The components that share no state with the trading cycle, for TLC: one *)
(* of them, chosen at the start, moves, the others keep their first state. *)
(* Each has its own horizon of the clock they read.                        *)
(***************************************************************************)
EXTENDS RetryBreaker, CallBreaker, RateLimiter, PidLock, JobScheduler, Wallets, EventBus,
        WsClient, PriceAlerts, GammaClient, Twap, TrailingStop, BatchOrders, PaperEngine,
        OrderLifecycle, LearnedState, Slippage

VARIABLE which

MCAddresses  == <<"w1", "w2">>
MCAllocation == [w1 |-> 1, w2 |-> 2]

Clocked == {"retry", "call", "limiter", "job", "alert", "gamma"}
Units == Clocked \cup {"pid", "wallet", "bus", "ws", "twap", "trail", "batch", "paper",
                       "lifecycle", "learn", "slippage"}

HorizonOf == [u \in Clocked |-> CASE u = "gamma" -> 3 [] u = "alert" -> 3
                                  [] u = "limiter" -> Horizon [] OTHER -> 5]

\* The components that may start in several ways start in one when they do not move.
Settled ==
    /\ which # "wallet" => strategy = "round_robin"
    /\ which # "batch" => client = "dry_run"
    /\ which # "trail" => order = [side |-> "SELL", mode |-> "amount"] /\ mark = 100
    /\ which # "slippage" => book = [bids |-> <<>>, asks |-> <<[price |-> 40, size |-> 1]>>]
    /\ which # "twap" => slices = [i \in Slices |-> [size |-> SliceSize, fill |-> 0, status |-> "pending"]]

Init ==
    /\ which \in Units /\ now = 0 /\ Settled
    /\ RetryInit /\ CallInit /\ LimiterInit /\ PidInit /\ JobInit /\ WalletInit /\ BusInit
    /\ WsInit /\ AlertInit /\ GammaInit /\ TrailInit /\ BatchInit /\ PaperInit
    /\ LifecycleInit /\ LearnInit /\ SlippageInit /\ TwapInit

Frozen(u) ==
    CASE u = "retry"     -> UNCHANGED retryVars
      [] u = "call"      -> UNCHANGED callVars
      [] u = "limiter"   -> UNCHANGED limiterVars
      [] u = "pid"       -> UNCHANGED pidVars
      [] u = "job"       -> UNCHANGED jobVars
      [] u = "wallet"    -> UNCHANGED walletVars
      [] u = "bus"       -> UNCHANGED busVars
      [] u = "ws"        -> UNCHANGED wsVars
      [] u = "alert"     -> UNCHANGED alertVars
      [] u = "gamma"     -> UNCHANGED gammaVars
      [] u = "twap"      -> UNCHANGED twapVars
      [] u = "trail"     -> UNCHANGED trailVars
      [] u = "batch"     -> UNCHANGED batchVars
      [] u = "paper"     -> UNCHANGED paperVars
      [] u = "lifecycle" -> UNCHANGED lifecycleVars
      [] u = "learn"     -> UNCHANGED learnVars
      [] u = "slippage"  -> UNCHANGED slippageVars

Moves ==
    \/ which = "retry"     /\ RetryNext
    \/ which = "call"      /\ CallNext
    \/ which = "limiter"   /\ LimiterNext
    \/ which = "pid"       /\ PidNext
    \/ which = "job"       /\ JobNext
    \/ which = "wallet"    /\ WalletNext
    \/ which = "bus"       /\ BusNext
    \/ which = "ws"        /\ WsNext
    \/ which = "alert"     /\ AlertNext
    \/ which = "gamma"     /\ GammaNext
    \/ which = "twap"      /\ TwapNext
    \/ which = "trail"     /\ TrailNext
    \/ which = "batch"     /\ BatchNext
    \/ which = "paper"     /\ PaperNext
    \/ which = "lifecycle" /\ LifecycleNext
    \/ which = "learn"     /\ LearnNext
    \/ which = "slippage"  /\ SlippageNext

Next ==
    /\ which' = which
    /\ \A u \in Units \ {which} : Frozen(u)
    /\ IF which \in Clocked THEN Moves /\ now' <= HorizonOf[which] ELSE Moves /\ now' = now

vars == <<which, now, retryVars, callVars, limiterVars, pidVars, jobVars, walletVars, busVars,
          wsVars, alertVars, gammaVars, twapVars, trailVars, batchVars, paperVars,
          lifecycleVars, learnVars, slippageVars>>

Spec == Init /\ [][Next]_vars /\ (which = "ws" => WsFairness) /\ (which = "twap" => TwapFairness)

-----------------------------------------------------------------------------
\* Each component's state is what its module declares.
UnitsTypeOK ==
    /\ RetryTypeOK /\ CallTypeOK /\ LimiterTypeOK /\ PidTypeOK /\ JobTypeOK /\ WalletTypeOK
    /\ BusTypeOK /\ WsTypeOK /\ AlertTypeOK /\ GammaTypeOK /\ TwapTypeOK /\ TrailTypeOK
    /\ BatchTypeOK /\ PaperTypeOK /\ LifecycleTypeOK /\ LearnTypeOK /\ SlippageTypeOK

\* SubscriptionsAreServed of WsClient and LoopEndsUnlessASliceFails of Twap, where they move.
StreamServesItsSubscriptions == which = "ws" => SubscriptionsAreServed
TwapLoopEnds == which = "twap" => LoopEndsUnlessASliceFails
=============================================================================
