-------------------------- MODULE MCAsyncTransaction --------------------------
(* Instances of AsyncTransaction that TLC checks. *)
EXTENDS AsyncTransaction, TLC

Symmetry ==
  Permutations(Layers) \cup Permutations(Transactions) \cup Permutations(Ops)
==============================================================================
