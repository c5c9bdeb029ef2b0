----------------------- MODULE MCAsyncTransactionQueue -----------------------
(* Instances of AsyncTransactionQueue that TLC checks. *)
EXTENDS AsyncTransactionQueue, TLC

Symmetry == Permutations(Ops) \cup Permutations(Workers) \cup Permutations(Groups)
==============================================================================
