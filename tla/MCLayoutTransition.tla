-------------------------- MODULE MCLayoutTransition --------------------------
(* A subnode of the root, and a pair of nodes that is in the tree, below the *)
(* root or below the subnode, or out of it.                                  *)
EXTENDS LayoutTransition

MCNodes   == {"root", "subnode", "other", "leaf"}
MCLaidOut == {"root", "subnode"}
MCTree    == [n \in MCNodes |-> CASE n = "subnode" -> "root"
                                  [] n = "leaf" -> "other"
                                  [] OTHER -> NoNode]
===============================================================================
