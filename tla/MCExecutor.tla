----------------------------- MODULE MCExecutor -----------------------------
(* Instances of Executor for TLC: the order ids are interchangeable, and so are the keys. *)
EXTENDS Executor, TLC

Symmetry == Permutations(Roots) \cup Permutations(Keys)

=============================================================================
