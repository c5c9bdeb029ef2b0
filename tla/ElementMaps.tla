----------------------------- MODULE ElementMaps -----------------------------
(***************************************************************************)
(* What ASDataController promises of its two maps                          *)
(* (ASDataController.h, lines 172-184): pendingMap is the latest map of    *)
(* the data source, visibleMap the one that is displayed, and every map    *)
(* becomes visible, in order, none skipped and none brought back.          *)
(*                                                                         *)
(* A map is named by its position in the order in which they were made.    *)
(***************************************************************************)
EXTENDS Naturals

VARIABLES pendingMap, visibleMap

mapVars == <<pendingMap, visibleMap>>

Init == pendingMap = 0 /\ visibleMap = 0

\* A change set makes the next map.
Latch == pendingMap' = pendingMap + 1 /\ UNCHANGED visibleMap

\* The view displays the map that follows the one it displays.
Deploy ==
  /\ visibleMap < pendingMap
  /\ visibleMap' = visibleMap + 1
  /\ UNCHANGED pendingMap

\* A map that is made while the latest one is displayed may replace it.
Replace ==
  /\ visibleMap = pendingMap
  /\ pendingMap' = pendingMap + 1
  /\ visibleMap' = pendingMap + 1

Next == Latch \/ Deploy \/ Replace

Spec == Init /\ [][Next]_mapVars
==============================================================================
