------------------------------ MODULE MCBinding ------------------------------
(* Model checking of Binding. *)
EXTENDS Binding, TLC

Symmetry == Permutations(DbiObj) \cup Permutations(TxnObj) \cup Permutations(Name)
=============================================================================
