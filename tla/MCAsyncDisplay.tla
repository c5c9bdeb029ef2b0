---------------------------- MODULE MCAsyncDisplay ----------------------------
(* A cell that draws nothing itself, and two nodes in it that do. *)
EXTENDS AsyncDisplay

CONSTANTS cell, layer, view

MCParent == [n \in Nodes |-> IF n = cell THEN NoNode ELSE cell]
MCContainer == [n \in Nodes |-> cell]
===============================================================================
