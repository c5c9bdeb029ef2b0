--------------------------- MODULE MCDataController ---------------------------
(* Instances of DataController that TLC checks. *)
EXTENDS DataController, TLC

Symmetry ==
  Permutations(Updates) \cup Permutations(Callbacks) \cup Permutations(SyncBlocks)
==============================================================================
