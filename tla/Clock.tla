------------------------------- MODULE Clock -------------------------------
(***************************************************************************)
(* time.monotonic() as the infrastructure modules read it: an integer that *)
(* only grows.  Horizon bounds it for TLC; no module that extends this one *)
(* relies on the bound.                                                    *)
(***************************************************************************)
EXTENDS Integers

CONSTANT Horizon        \* bound: the last instant a run looks at

ASSUME ClockAssumption == Horizon \in Nat

VARIABLE now            \* time.monotonic(), in units of the module's intervals

Tick == now < Horizon /\ now' = now + 1

Since(t) == now - t
=============================================================================
