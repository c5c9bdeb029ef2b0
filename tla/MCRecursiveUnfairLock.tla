------------------------ MODULE MCRecursiveUnfairLock ------------------------
(* The instance of RecursiveUnfairLock that TLC checks. *)
EXTENDS RecursiveUnfairLock, TLC

Symmetry == Permutations(Threads)
==============================================================================
