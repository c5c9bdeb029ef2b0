-------------------------- MODULE MCRangeController ---------------------------
(* Instances of RangeController that TLC checks. *)
EXTENDS RangeController
===============================================================================
