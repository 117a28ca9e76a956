-------------------------- MODULE MCThreadSafeQueue --------------------------
(* Instances of ThreadSafeQueue for TLC. *)
EXTENDS ThreadSafeQueue, TLC

Symmetry == Permutations(Threads) \cup Permutations(Values) \cup Permutations(Elts)
==============================================================================
