---------------------------- MODULE MCRunLoopQueue ----------------------------
(* Three objects, batches of one and of two. *)
EXTENDS RunLoopQueue

MCBatchSizes == {1, 2}
===============================================================================
