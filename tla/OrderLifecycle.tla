--------------------------- MODULE OrderLifecycle ---------------------------
(***************************************************************************)
(* execution/state_machine.py and the states of types.py: one              *)
(* OrderStateMachine, its to_dict image and a from_dict of it.             *)
(***************************************************************************)
EXTENDS Integers, Sequences, FiniteSets

CONSTANTS MaxHistory,  \* bound: transitions recorded
          MaxForced    \* bound: of them forced

ASSUME LifecycleAssumption == MaxHistory \in Nat /\ MaxForced \in Nat

VARIABLES state,    \* _state
          history,  \* _history
          saved     \* the last to_dict, <<>> before the first

lifecycleVars == <<state, history, saved>>

\* VALID_TRANSITIONS.
ValidTransitions ==
    {<<"created", "validated">>, <<"created", "cancelled">>,
     <<"validated", "signed">>, <<"validated", "rejected">>,
     <<"signed", "submitted">>, <<"signed", "cancelled">>,
     <<"submitted", "acknowledged">>, <<"submitted", "rejected">>, <<"submitted", "cancelled">>,
     <<"acknowledged", "partial_fill">>, <<"acknowledged", "filled">>,
     <<"acknowledged", "cancelled">>, <<"acknowledged", "expired">>,
     <<"partial_fill", "partial_fill">>, <<"partial_fill", "filled">>,
     <<"partial_fill", "cancelled">>,
     <<"filled", "settled">>, <<"settled", "redeemed">>}

OrderStates == {"created", "validated", "signed", "submitted", "acknowledged", "partial_fill",
                "filled", "settled", "redeemed", "rejected", "cancelled", "expired"}
TerminalStates == {"redeemed", "rejected", "cancelled", "expired"}

StateTransitions == [from : OrderStates, to : OrderStates, forced : BOOLEAN]
ForcedIn(h) == Cardinality({k \in DOMAIN h : h[k].forced})

LifecycleTypeOK ==
    /\ state \in OrderStates
    /\ history \in Seq(StateTransitions)
    /\ saved = <<>> \/ (saved.state \in OrderStates /\ saved.history \in Seq(StateTransitions))

LifecycleInit == state = "created" /\ history = <<>> /\ saved = <<>>

\* can_transition.
CanTransition(target) == <<state, target>> \in ValidTransitions

Recorded(target, forced) ==
    /\ Len(history) < MaxHistory
    /\ history' = Append(history, [from |-> state, to |-> target, forced |-> forced])
    /\ state' = target
    /\ UNCHANGED saved

Transition(target) ==
    /\ state \notin TerminalStates
    /\ CanTransition(target)
    /\ Recorded(target, FALSE)

\* force_state: no validation at all.
ForceState(target) ==
    /\ ForcedIn(history) < MaxForced
    /\ Recorded(target, TRUE)

ToDict ==
    /\ saved' = [state |-> state, history |-> history]
    /\ UNCHANGED <<state, history>>

\* Mutant of Restored: the constructor's empty history is kept.
RestoredWithoutHistory(d) == state' = d.state /\ history' = <<>>

Restored(d) == state' = d.state /\ history' = d.history

\* from_dict, in a later process: what happened after the last to_dict is gone.
FromDict ==
    /\ saved # <<>>
    /\ Restored(saved)
    /\ UNCHANGED saved

LifecycleNext ==
    \/ \E target \in OrderStates : Transition(target) \/ ForceState(target)
    \/ ToDict
    \/ FromDict

LifecycleSpec == LifecycleInit /\ [][LifecycleNext]_lifecycleVars

-----------------------------------------------------------------------------
\* Safety.  Through any number of saves and restores the audit trail explains the state: it
\* starts at creation, every entry begins where the one before it ended and the last one ends
\* in the current state; an order that was never forced is settled or redeemed only if the
\* trail shows it was acknowledged and then filled, and moves nowhere once it has ended.
AuditTrailExplainsState ==
    LET Shown(s) == {k \in DOMAIN history : history[k].to = s} IN
    /\ \A k \in DOMAIN history :
          history[k].from = IF k = 1 THEN "created" ELSE history[k - 1].to
    /\ state = IF history = <<>> THEN "created" ELSE history[Len(history)].to
    /\ ForcedIn(history) = 0 =>
          /\ state \in {"settled", "redeemed"} =>
                \E j \in Shown("acknowledged"), k \in Shown("filled") : j < k
          /\ \A k \in DOMAIN history : history[k].from \notin TerminalStates
=============================================================================
