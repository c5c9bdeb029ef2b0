---------------------------- MODULE MCNetworkImage ----------------------------
(* Two URLs that may be exchanged. *)
EXTENDS NetworkImage, TLC

Symmetry == Permutations(URLs)
===============================================================================
