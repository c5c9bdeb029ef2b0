------------------------ MODULE RangeControllerProofs -------------------------
(* For any nodes, maps and ranges: no node is visible when nothing refers to  *)
(* it, and while the ranges are valid every node has the states of its range. *)
(* Both are about states that are applied when they are set; that a node which *)
(* returns to the hierarchy is not told that it left is about both kinds.      *)
EXTENDS RangeController, TLAPS

NodeStates == [applied : States, pending : States, preExiting : States,
               queued : BOOLEAN]

\* A map has nodes for items, each at one position.
IsMap(items) ==
  /\ items \in [DOMAIN items -> Nodes]
  /\ \A i, j \in DOMAIN items : items[i] = items[j] => i = j

\* What is read of a record or of a map is of its kind.
TypeInv ==
  /\ coalesces \in BOOLEAN /\ IsMap(map)
  /\ node \in [Nodes -> NodeStates] /\ wanted \in [Nodes -> States]
  /\ visibleNodes \subseteq Nodes

\* A state that was set has been applied.
AppliedInv == \A n \in Nodes : node[n].pending = node[n].applied

\* The range controller knows every visible node.
TrackedInv == \A n \in Nodes : IsVisible(node[n]) => n \in visibleNodes

Exact(r, state) ==
  r.applied \subseteq state /\ state \ {"visible"} \subseteq r.applied

\* While the ranges are valid nothing is in a range but at the index paths of
\* the last update.
ExactInv ==
  rangeIsValid => \A i \in DOMAIN map :
                    /\ Exact(node[map[i]], wanted[map[i]])
                    /\ i \notin previousPaths => wanted[map[i]] = {}

IInv == TypeInv /\ (~coalesces => AppliedInv /\ TrackedInv /\ ExactInv)

-------------------------------------------------------------------------------
(* States of a node *)

\* Setting a state keeps the record a record of states.
LEMMA SetStateType ==
  ASSUME coalesces \in BOOLEAN, NEW r \in NodeStates, NEW state \in States
  PROVE  SetState(r, state) \in NodeStates
<1>1. CASE ~coalesces
  BY <1>1 DEF SetState, Apply, NodeStates, States
<1>2. CASE coalesces
  BY <1>2 DEF SetState, NodeStates, States
<1> QED BY <1>1, <1>2

\* Without coalescing the state that is set is applied.
LEMMA SetStateApplies ==
  ASSUME ~coalesces, NEW r \in NodeStates, NEW state \in States
  PROVE  /\ SetState(r, state).applied = state
         /\ SetState(r, state).pending = state
BY DEF SetState, Apply, NodeStates, States

\* What is left when the visible state goes is a state.
LEMMA WithoutVisible ==
  ASSUME NEW state \in States
  PROVE  state \ {"visible"} \in States
BY DEF States

\* Those who leave the visible nodes still have states.
LEMMA LeaveVisibleType ==
  ASSUME coalesces \in BOOLEAN, NEW states \in [Nodes -> NodeStates],
         NEW newVisible
  PROVE  LeaveVisible(states, newVisible) \in [Nodes -> NodeStates]
<1> SUFFICES ASSUME NEW n \in Nodes
             PROVE  LeaveVisible(states, newVisible)[n] \in NodeStates
  BY DEF LeaveVisible
<1>1. states[n] \in NodeStates /\ states[n].applied \in States
  BY DEF NodeStates
<1>2. ExitVisibleState(states[n]) \in NodeStates
  BY <1>1, SetStateType, WithoutVisible DEF ExitVisibleState
<1> QED BY <1>1, <1>2 DEF LeaveVisible

\* Without coalescing they have lost the visible state, and nothing else has
\* changed.
LEMMA ExitApplies ==
  ASSUME ~coalesces, NEW r \in NodeStates
  PROVE  /\ ExitVisibleState(r).applied = r.applied \ {"visible"}
         /\ ExitVisibleState(r).pending = r.applied \ {"visible"}
<1>1. r.applied \in States
  BY DEF NodeStates
<1> QED BY <1>1, SetStateApplies, WithoutVisible DEF ExitVisibleState

LEMMA LeaveVisibleApplies ==
  ASSUME ~coalesces, NEW states \in [Nodes -> NodeStates], NEW newVisible,
         NEW n \in Nodes, NEW r, r = LeaveVisible(states, newVisible)[n],
         states[n].pending = states[n].applied
  PROVE  /\ r.pending = r.applied
         /\ n \in visibleNodes \ newVisible =>
              r.applied = states[n].applied \ {"visible"}
         /\ n \notin visibleNodes \ newVisible => r.applied = states[n].applied
<1>1. CASE n \in visibleNodes \ newVisible /\ IsVisible(states[n])
  <2>1. r = ExitVisibleState(states[n])
    BY <1>1 DEF LeaveVisible
  <2> QED BY <1>1, <2>1, ExitApplies
<1>2. CASE ~(n \in visibleNodes \ newVisible /\ IsVisible(states[n]))
  <2>1. r = states[n]
    BY <1>2 DEF LeaveVisible
  <2>2. states[n].applied \in States
    BY DEF NodeStates
  <2> QED BY <1>2, <2>1, <2>2 DEF IsVisible
<1> QED BY <1>1, <1>2

-------------------------------------------------------------------------------
(* Maps and updates *)

\* The maps that come are one-to-one, with nodes for items.
LEMMA MapsAreMaps ==
  ASSUME Coalesced \subseteq Nodes,
         NEW items \in Maps(IF coalesces THEN Coalesced ELSE Nodes)
  PROVE  IsMap(items)
<1> DEFINE nodes == IF coalesces THEN Coalesced ELSE Nodes
<1>1. PICK k \in 0 .. Cardinality(nodes) : items \in [1 .. k -> nodes]
  BY DEF Maps
<1>2. \A i, j \in DOMAIN items : items[i] = items[j] => i = j
  BY DEF Maps
<1>3. nodes \subseteq Nodes
  OBVIOUS
<1> QED BY <1>1, <1>2, <1>3 DEF IsMap

\* A position of a map is that of its node.
LEMMA PositionInMap ==
  ASSUME NEW items, IsMap(items), NEW i \in DOMAIN items
  PROVE  items[i] \in Nodes /\ PositionOf(items, items[i]) = i
BY DEF IsMap, PositionOf

-------------------------------------------------------------------------------
(* One lemma per kind of step *)

LEMMA InitEstablishes == Init /\ RangeAssumption => IInv
<1> SUFFICES ASSUME Init, RangeAssumption PROVE IInv
  OBVIOUS
<1>1. NewNode \in NodeStates
  BY DEF NewNode, NodeStates, States
<1>2. IsMap(map)
  BY DEF Init, IsMap
<1>3. coalesces \in BOOLEAN
  BY DEF Init, RangeAssumption
<1>4. TypeInv
  BY <1>1, <1>2, <1>3 DEF Init, TypeInv, States
<1>5. \A n \in Nodes : node[n] = NewNode
  BY DEF Init
<1>6. AppliedInv
  BY <1>5 DEF AppliedInv, NewNode
<1>7. TrackedInv
  BY <1>5 DEF TrackedInv, NewNode, IsVisible
<1>8. DOMAIN map = {}
  BY DEF Init
<1>9. ExactInv
  BY <1>8 DEF ExactInv
<1> QED BY <1>4, <1>6, <1>7, <1>9 DEF IInv

\* What an update does to the nodes, whatever it has set before the visible
\* nodes are compared.
LEMMA VisibleStep ==
  ASSUME IInv, NEW states \in [Nodes -> NodeStates], NEW newVisible,
         ~coalesces => \A n \in Nodes :
                         /\ states[n].pending = states[n].applied
                         /\ IsVisible(states[n]) =>
                              n \in visibleNodes \cup newVisible,
         node' = LeaveVisible(states, newVisible), visibleNodes' = newVisible,
         coalesces' = coalesces
  PROVE  ~coalesces' => AppliedInv' /\ TrackedInv'
<1> SUFFICES ASSUME ~coalesces, NEW n \in Nodes
             PROVE  /\ node'[n].pending = node'[n].applied
                    /\ IsVisible(node'[n]) => n \in newVisible
  BY DEF AppliedInv, TrackedInv
<1>1. /\ node'[n].pending = node'[n].applied
      /\ n \in visibleNodes \ newVisible =>
           node'[n].applied = states[n].applied \ {"visible"}
      /\ n \notin visibleNodes \ newVisible =>
           node'[n].applied = states[n].applied
  <2>1. states[n].pending = states[n].applied
    OBVIOUS
  <2>2. node'[n] = LeaveVisible(states, newVisible)[n]
    OBVIOUS
  <2> QED BY <2>1, <2>2, LeaveVisibleApplies
<1> QED BY <1>1 DEF IsVisible

\* An update with no cell on display.
LEMMA VisibleOnlyStep ==
  ASSUME IInv, NEW items, IsMap(items), NEW isValid,
         isValid => rangeIsValid /\ items = map,
         UpdateVisibleOnly(items, isValid), map' = items, coalesces' = coalesces
  PROVE  IInv'
<1>1. PICK inLayout \in SUBSET Items(items) :
        /\ node' = LeaveVisible(node, inLayout)
        /\ wanted' = [n \in Nodes |->
                        IF n \in visibleNodes \ inLayout
                          THEN wanted[n] \ {"visible"} ELSE wanted[n]]
        /\ visibleNodes' = inLayout
        /\ rangeIsValid' = isValid
        /\ previousPaths' = previousPaths
  BY DEF UpdateVisibleOnly
<1>2. inLayout \subseteq Nodes
  BY PositionInMap DEF Items
<1>3. TypeInv'
  <2>1. node' \in [Nodes -> NodeStates]
    BY <1>1, LeaveVisibleType DEF IInv, TypeInv
  <2>2. wanted' \in [Nodes -> States]
    BY <1>1, WithoutVisible DEF IInv, TypeInv
  <2> QED BY <1>1, <1>2, <2>1, <2>2 DEF IInv, TypeInv, IsMap
<1>4. ~coalesces => \A n \in Nodes :
                      /\ node[n].pending = node[n].applied
                      /\ IsVisible(node[n]) => n \in visibleNodes
  BY DEF IInv, AppliedInv, TrackedInv
<1>5. ~coalesces' => AppliedInv' /\ TrackedInv'
  BY <1>1, <1>4, VisibleStep DEF IInv, TypeInv
<1>6. ASSUME ~coalesces, isValid, NEW i \in DOMAIN items
      PROVE  /\ Exact(node'[items[i]], wanted'[items[i]])
             /\ i \notin previousPaths => wanted'[items[i]] = {}
  <2> DEFINE n == items[i]
  <2>1. n \in Nodes
    BY PositionInMap
  <2>2. /\ Exact(node[n], wanted[n])
        /\ i \notin previousPaths => wanted[n] = {}
    BY <1>6 DEF IInv, ExactInv
  <2>3. /\ n \in visibleNodes \ inLayout =>
             node'[n].applied = node[n].applied \ {"visible"}
        /\ n \notin visibleNodes \ inLayout =>
             node'[n].applied = node[n].applied
    BY <1>1, <1>4, <1>6, <2>1, LeaveVisibleApplies DEF IInv, TypeInv
  <2>4. wanted'[n] = IF n \in visibleNodes \ inLayout
                       THEN wanted[n] \ {"visible"} ELSE wanted[n]
    BY <1>1, <2>1
  <2> QED BY <2>2, <2>3, <2>4 DEF Exact
<1>7. ~coalesces' => ExactInv'
  BY <1>1, <1>6 DEF ExactInv
<1> QED BY <1>3, <1>5, <1>7 DEF IInv

\* What the range controller gives is a state.
LEMMA StateAtType ==
  ASSUME NEW i, NEW seen, NEW display, NEW preload, NEW isVisible, NEW lowMemory
  PROVE  StateAt(i, seen, display, preload, isVisible, lowMemory) \in States
BY DEF StateAt, States, Visible

\* Out of all ranges it gives none.
LEMMA NothingOutOfRange ==
  ASSUME NEW seen, NEW display, NEW preload, NEW isVisible, NEW lowMemory,
         NEW i, i \notin seen \cup display \cup preload
  PROVE  StateAt(i, seen, display, preload, isVisible, lowMemory) = {}
BY DEF StateAt

\* An update of all ranges. Positions that are not visited are in no range,
\* and were in none.
LEMMA UpdateAllStep ==
  ASSUME IInv, NEW items, IsMap(items), NEW isVisible, NEW isValid,
         isValid => rangeIsValid /\ items = map,
         UpdateAll(items, isVisible, isValid), map' = items,
         coalesces' = coalesces
  PROVE  IInv'
<1>1. PICK display \in SUBSET Positions(items),
           preload \in SUBSET Positions(items), lowMemory \in BOOLEAN :
        LET seen == {i \in Positions(items) : shown[items[i]] > 0}
            inRange == seen \cup display \cup preload
            StateOf(n) == StateAt(PositionOf(items, n), seen, display, preload,
                                  isVisible, lowMemory)
            visited == {items[i] : i \in Visited(items, inRange, isValid)
                                           \cap Positions(items)}
            newVisible == {n \in visited : "visible" \in StateOf(n)}
            visits == [n \in Nodes |->
                         IF n \in visited /\ node[n].pending # StateOf(n)
                           THEN SetState(node[n], StateOf(n)) ELSE node[n]]
        IN /\ node' = LeaveVisible(visits, newVisible)
           /\ wanted' = [n \in Nodes |-> IF n \in Items(items) THEN StateOf(n)
                                           ELSE wanted[n] \ {"visible"}]
           /\ visibleNodes' = newVisible
           /\ previousPaths' = inRange
           /\ rangeIsValid' = TRUE
  BY DEF UpdateAll
<1> DEFINE seen == {i \in Positions(items) : shown[items[i]] > 0}
           inRange == seen \cup display \cup preload
           StateOf(n) == StateAt(PositionOf(items, n), seen, display, preload,
                                 isVisible, lowMemory)
           visited == {items[i] : i \in Visited(items, inRange, isValid)
                                          \cap Positions(items)}
           newVisible == {n \in visited : "visible" \in StateOf(n)}
           visits == [n \in Nodes |->
                        IF n \in visited /\ node[n].pending # StateOf(n)
                          THEN SetState(node[n], StateOf(n)) ELSE node[n]]
<1>2. /\ node' = LeaveVisible(visits, newVisible)
      /\ wanted' = [n \in Nodes |-> IF n \in Items(items) THEN StateOf(n)
                                      ELSE wanted[n] \ {"visible"}]
      /\ visibleNodes' = newVisible
      /\ previousPaths' = inRange
      /\ rangeIsValid' = TRUE
  BY <1>1
<1>3. \A n : StateOf(n) \in States
  BY StateAtType
<1>4. visited \subseteq Nodes
  BY PositionInMap DEF Positions
<1>5. \A i \in DOMAIN items :
        i \in Visited(items, inRange, isValid) => items[i] \in visited
  BY DEF Positions
<1>6. \A i \in DOMAIN items : i \notin inRange => StateOf(items[i]) = {}
  BY PositionInMap, NothingOutOfRange
<1>7. inRange \subseteq Visited(items, inRange, isValid)
  BY DEF Visited
<1>8. ~isValid => \A i \in DOMAIN items : i \in Visited(items, inRange, isValid)
  BY DEF Visited, Positions
<1>9. previousPaths \subseteq Visited(items, inRange, isValid)
  BY DEF Visited
<1>10. \A i \in DOMAIN items : items[i] \in Nodes /\ items[i] \in Items(items)
  BY PositionInMap DEF Items
<1> HIDE DEF seen, inRange, StateOf, visited
<1>11. visits \in [Nodes -> NodeStates]
  BY <1>3, SetStateType DEF IInv, TypeInv
<1>12. TypeInv'
  <2>1. node' \in [Nodes -> NodeStates]
    BY <1>2, <1>11, LeaveVisibleType DEF IInv, TypeInv
  <2>2. wanted' \in [Nodes -> States]
    BY <1>2, <1>3, WithoutVisible DEF IInv, TypeInv
  <2>3. newVisible \subseteq Nodes
    BY <1>4
  <2> QED BY <1>2, <2>1, <2>2, <2>3 DEF IInv, TypeInv, IsMap
<1>13. ASSUME ~coalesces, NEW n \in Nodes
       PROVE  /\ visits[n].pending = visits[n].applied
              /\ n \in visited => visits[n].applied = StateOf(n)
              /\ n \notin visited => visits[n].applied = node[n].applied
  <2>1. node[n] \in NodeStates /\ node[n].pending = node[n].applied
    BY <1>13 DEF IInv, TypeInv, AppliedInv
  <2>2. CASE n \in visited /\ node[n].pending # StateOf(n)
    <3>1. visits[n] = SetState(node[n], StateOf(n))
      BY <2>2
    <3> QED BY <1>3, <1>13, <2>1, <2>2, <3>1, SetStateApplies
  <2>3. CASE ~(n \in visited /\ node[n].pending # StateOf(n))
    BY <2>1, <2>3
  <2> QED BY <2>2, <2>3
<1>14. ASSUME ~coalesces, NEW n \in Nodes, IsVisible(visits[n])
       PROVE  n \in visibleNodes \cup newVisible
  <2>1. CASE n \in visited
    BY <1>13, <1>14, <2>1 DEF IsVisible
  <2>2. CASE n \notin visited
    BY <1>13, <1>14, <2>2 DEF IsVisible, IInv, TrackedInv
  <2> QED BY <2>1, <2>2
<1> HIDE DEF visits, newVisible
<1>15. ~coalesces' => AppliedInv' /\ TrackedInv'
  BY <1>2, <1>11, <1>13, <1>14, VisibleStep
<1>16. ASSUME ~coalesces, NEW i \in DOMAIN items
       PROVE  /\ Exact(node'[items[i]], wanted'[items[i]])
              /\ i \notin inRange => wanted'[items[i]] = {}
  <2> DEFINE n == items[i]
  <2>1. n \in Nodes /\ wanted'[n] = StateOf(n)
    BY <1>2, <1>10
  <2>2. CASE n \in visited
    <3>1. visits[n].applied = StateOf(n) /\ visits[n].pending = visits[n].applied
      BY <1>13, <1>16, <2>1, <2>2
    <3>2. node'[n].applied = StateOf(n)
      <4>1. node'[n] = LeaveVisible(visits, newVisible)[n]
        BY <1>2
      <4>2. CASE n \in newVisible
        BY <1>11, <1>16, <2>1, <3>1, <4>1, <4>2, LeaveVisibleApplies
      <4>3. CASE n \notin newVisible
        <5>1. "visible" \notin StateOf(n)
          BY <2>2, <4>3 DEF newVisible
        <5>2. StateOf(n) \ {"visible"} = StateOf(n)
          BY <5>1
        <5>3. \/ node'[n].applied = visits[n].applied \ {"visible"}
              \/ node'[n].applied = visits[n].applied
          BY <1>11, <1>16, <2>1, <3>1, <4>1, LeaveVisibleApplies
        <5> QED BY <3>1, <5>2, <5>3
      <4> QED BY <4>2, <4>3
    <3> QED BY <1>6, <2>1, <3>2 DEF Exact
  <2>3. CASE n \notin visited
    <3>1. i \notin inRange /\ i \notin previousPaths /\ isValid
      BY <1>5, <1>7, <1>8, <1>9, <2>3
    <3>2. StateOf(n) = {} /\ wanted[n] = {} /\ node[n].applied \subseteq wanted[n]
      BY <1>6, <1>16, <3>1 DEF IInv, ExactInv, Exact
    <3>3. visits[n].applied = {} /\ visits[n].pending = visits[n].applied
      BY <1>13, <1>16, <2>1, <2>3, <3>2
    <3>4. node'[n].applied = {}
      <4>1. node'[n] = LeaveVisible(visits, newVisible)[n]
        BY <1>2
      <4>2. \/ node'[n].applied = visits[n].applied \ {"visible"}
            \/ node'[n].applied = visits[n].applied
        <5>1. visits[n].pending = visits[n].applied
          BY <3>3
        <5> QED BY <1>11, <1>16, <2>1, <4>1, <5>1, LeaveVisibleApplies, SMTT(30)
      <4> QED BY <3>3, <4>2
    <3> QED BY <2>1, <3>2, <3>4 DEF Exact
  <2> QED BY <2>2, <2>3
<1>17. ~coalesces' => ExactInv'
  BY <1>2, <1>16 DEF ExactInv
<1> QED BY <1>12, <1>15, <1>17 DEF IInv

LEMMA UpdateRangesStep ==
  ASSUME IInv, NEW items, IsMap(items), NEW isVisible, NEW isValid,
         isValid => rangeIsValid /\ items = map,
         UpdateRanges(items, isVisible, isValid), map' = items,
         coalesces' = coalesces
  PROVE  IInv'
<1>1. CASE UpdateVisibleOnly(items, isValid)
  BY <1>1, VisibleOnlyStep
<1>2. CASE UpdateAll(items, isVisible, isValid)
  BY <1>2, UpdateAllStep
<1> QED BY <1>1, <1>2 DEF UpdateRanges

\* A batch update that leaves the ranges for later.
LEMMA LaterStep ==
  ASSUME IInv, NEW items, IsMap(items), map' = items, rangeIsValid' = FALSE,
         UNCHANGED <<coalesces, previousPaths, visibleNodes, wanted, node>>
  PROVE  IInv'
BY DEF IInv, TypeInv, AppliedInv, TrackedInv, ExactInv, IsMap

LEMMA ReloadStep ==
  ASSUME IInv, NEW items, IsMap(items), ReloadData(items)
  PROVE  IInv'
<1>1. TypeInv'
  <2>1. node' \in [Nodes -> NodeStates]
    BY LeaveVisibleType DEF IInv, TypeInv, ReloadData
  <2>2. wanted' \in [Nodes -> States]
    BY WithoutVisible DEF IInv, TypeInv, ReloadData
  <2> QED BY <2>1, <2>2 DEF IInv, TypeInv, ReloadData, IsMap
<1>2. ~coalesces' => AppliedInv' /\ TrackedInv'
  <2>1. ~coalesces => \A n \in Nodes :
                        /\ node[n].pending = node[n].applied
                        /\ IsVisible(node[n]) => n \in visibleNodes \cup {}
    BY DEF IInv, AppliedInv, TrackedInv
  <2>2. node \in [Nodes -> NodeStates]
    BY DEF IInv, TypeInv
  <2> QED BY <2>1, <2>2, VisibleStep DEF ReloadData
<1>3. ExactInv'
  BY DEF ExactInv, ReloadData
<1> QED BY <1>1, <1>2, <1>3 DEF IInv

\* One node changes at most: its record stays one of states, and without
\* coalescing it only may have lost the visible state.
LEMMA NodeStep ==
  ASSUME IInv, NEW n \in Nodes, NEW r \in NodeStates,
         node' = [node EXCEPT ![n] = r],
         ~coalesces => /\ r.pending = r.applied
                       /\ \/ r.applied = node[n].applied
                          \/ r.applied = node[n].applied \ {"visible"},
         UNCHANGED <<coalesces, map, rangeIsValid, previousPaths, visibleNodes,
                     wanted>>
  PROVE  IInv'
<1>1. TypeInv'
  BY DEF IInv, TypeInv, IsMap
<1>2. ASSUME ~coalesces, NEW k \in Nodes
      PROVE  /\ node'[k].pending = node'[k].applied
             /\ \/ node'[k].applied = node[k].applied
                \/ node'[k].applied = node[k].applied \ {"visible"}
  <2>1. CASE k = n
    BY <1>2, <2>1 DEF IInv, TypeInv
  <2>2. CASE k # n
    BY <1>2, <2>2 DEF IInv, TypeInv, AppliedInv
  <2> QED BY <2>1, <2>2
<1>3. ~coalesces' => AppliedInv' /\ TrackedInv'
  <2>1. ASSUME ~coalesces, NEW k \in Nodes, IsVisible(node'[k])
        PROVE  k \in visibleNodes
    BY <1>2, <2>1 DEF IInv, TrackedInv, IsVisible
  <2> QED BY <1>2, <2>1 DEF AppliedInv, TrackedInv
<1>4. ~coalesces' => ExactInv'
  <2> SUFFICES ASSUME ~coalesces, rangeIsValid, NEW i \in DOMAIN map
               PROVE  /\ Exact(node'[map[i]], wanted[map[i]])
                      /\ i \notin previousPaths => wanted[map[i]] = {}
    BY DEF ExactInv
  <2>1. map[i] \in Nodes
    BY PositionInMap DEF IInv, TypeInv
  <2>2. /\ Exact(node[map[i]], wanted[map[i]])
        /\ i \notin previousPaths => wanted[map[i]] = {}
    BY DEF IInv, ExactInv
  <2>3. \/ node'[map[i]].applied = node[map[i]].applied
        \/ node'[map[i]].applied = node[map[i]].applied \ {"visible"}
    BY <1>2, <2>1
  <2> QED BY <2>2, <2>3 DEF Exact
<1> QED BY <1>1, <1>3, <1>4 DEF IInv

\* What leaving the hierarchy makes of a node.
LEMMA ExitVisibleResult ==
  ASSUME coalesces \in BOOLEAN, NEW r \in NodeStates, NEW still \in BOOLEAN
  PROVE  /\ ExitVisible(r, still) \in NodeStates
         /\ ~coalesces /\ r.pending = r.applied =>
              /\ ExitVisible(r, still).pending = ExitVisible(r, still).applied
              /\ \/ ExitVisible(r, still).applied = r.applied
                 \/ ExitVisible(r, still).applied = r.applied \ {"visible"}
<1> DEFINE remembered ==
             [r EXCEPT !.preExiting = IF coalesces THEN r.pending ELSE {}]
<1>1. r.pending \in States /\ {} \in States
  BY DEF NodeStates, States
<1>2. remembered \in NodeStates
  BY <1>1 DEF NodeStates
<1>3. remembered.pending = r.pending /\ remembered.applied = r.applied
  BY DEF NodeStates
<1>4. r.pending \ {"visible"} \in States
  BY <1>1, WithoutVisible
<1> HIDE DEF remembered
<1>5. CASE ~still /\ "visible" \in r.pending
  <2>1. ExitVisible(r, still) = SetState(remembered, r.pending \ {"visible"})
    BY <1>5 DEF ExitVisible, remembered
  <2>2. SetState(remembered, r.pending \ {"visible"}) \in NodeStates
    BY <1>2, <1>4, SetStateType
  <2>3. ~coalesces =>
          /\ SetState(remembered, r.pending \ {"visible"}).applied
               = r.pending \ {"visible"}
          /\ SetState(remembered, r.pending \ {"visible"}).pending
               = r.pending \ {"visible"}
    BY <1>2, <1>4, SetStateApplies
  <2> QED BY <2>1, <2>2, <2>3
<1>6. CASE ~(~still /\ "visible" \in r.pending)
  <2>1. ExitVisible(r, still) = remembered
    BY <1>6 DEF ExitVisible, remembered
  <2> QED BY <1>2, <1>3, <2>1
<1> QED BY <1>5, <1>6

LEMMA EnterStep ==
  ASSUME IInv, NEW n \in Nodes, EnterHierarchy(n)
  PROVE  IInv'
<1>1. node[n] \in NodeStates /\ coalesces \in BOOLEAN
  BY DEF IInv, TypeInv
<1>2. CASE coalesces /\ node[n].preExiting # {}
  <2> DEFINE r == [node[n] EXCEPT !.preExiting = {}]
             s == SetState(r, node[n].preExiting)
  <2>1. r \in NodeStates /\ node[n].preExiting \in States
    BY <1>1 DEF NodeStates, States
  <2>2. s \in NodeStates
    BY <1>1, <2>1, SetStateType
  <2>3. node' = [node EXCEPT ![n] = s]
    BY <1>2 DEF EnterHierarchy
  <2>4. UNCHANGED <<coalesces, map, rangeIsValid, previousPaths, visibleNodes,
                    wanted>>
    BY DEF EnterHierarchy, view, range
  <2> HIDE DEF s
  <2> QED BY <1>2, <2>2, <2>3, <2>4, NodeStep
<1>3. CASE ~(coalesces /\ node[n].preExiting # {})
  <2>1. UNCHANGED <<coalesces, map, rangeIsValid, previousPaths, visibleNodes,
                    wanted, node>>
    BY <1>3 DEF EnterHierarchy, view, range
  <2> QED BY <2>1 DEF IInv, TypeInv, AppliedInv, TrackedInv, ExactInv, IsMap
<1> QED BY <1>2, <1>3

LEMMA ExitStep ==
  ASSUME IInv, NEW n \in Nodes, ExitHierarchy(n) \/ ExitVisibleBlock(n)
  PROVE  IInv'
<1>1. node[n] \in NodeStates /\ coalesces \in BOOLEAN
  BY DEF IInv, TypeInv
<1>2. UNCHANGED <<coalesces, map, rangeIsValid, previousPaths, visibleNodes,
                  wanted>>
  BY DEF ExitHierarchy, ExitVisibleBlock, view, range
<1>3. \/ node' = node
      \/ \E still \in BOOLEAN :
           node' = [node EXCEPT ![n] = ExitVisible(node[n], still)]
  <2>1. CASE ExitHierarchy(n)
    <3>1. \/ node' = node
          \/ node' = [node EXCEPT ![n] = ExitVisible(node[n], FALSE)]
      BY <2>1 DEF ExitHierarchy
    <3> QED BY <3>1
  <2>2. CASE ExitVisibleBlock(n)
    <3> DEFINE still == n \in inHierarchy
    <3>1. node' = [node EXCEPT ![n] = ExitVisible(node[n], still)]
      BY <2>2 DEF ExitVisibleBlock
    <3>2. still \in BOOLEAN
      OBVIOUS
    <3> HIDE DEF still
    <3> QED BY <3>1, <3>2
  <2> QED BY <2>1, <2>2
<1>4. CASE node' = node
  BY <1>2, <1>4 DEF IInv, TypeInv, AppliedInv, TrackedInv, ExactInv, IsMap
<1>5. CASE \E still \in BOOLEAN :
             node' = [node EXCEPT ![n] = ExitVisible(node[n], still)]
  <2>1. PICK still \in BOOLEAN :
          node' = [node EXCEPT ![n] = ExitVisible(node[n], still)]
    BY <1>5
  <2> DEFINE r == ExitVisible(node[n], still)
  <2>2. ~coalesces => node[n].pending = node[n].applied
    BY DEF IInv, AppliedInv
  <2>3. r \in NodeStates
    BY <1>1, ExitVisibleResult
  <2>4. ~coalesces => /\ r.pending = r.applied
                      /\ \/ r.applied = node[n].applied
                         \/ r.applied = node[n].applied \ {"visible"}
    BY <1>1, <2>2, ExitVisibleResult
  <2> HIDE DEF r
  <2>5. node' = [node EXCEPT ![n] = r]
    BY <2>1 DEF r
  <2> QED BY <1>2, <2>3, <2>4, <2>5, NodeStep
<1> QED BY <1>3, <1>4, <1>5

\* Without coalescing the queue has nothing to say.
LEMMA ProcessStep ==
  ASSUME IInv, ProcessTransactions
  PROVE  IInv'
<1>1. UNCHANGED <<coalesces, map, rangeIsValid, previousPaths, visibleNodes,
                  wanted>>
  BY DEF ProcessTransactions, view, range
<1>2. \A n \in Nodes : node[n] \in NodeStates
  BY DEF IInv, TypeInv
<1>3. node' \in [Nodes -> NodeStates]
  <2>1. ASSUME NEW n \in Nodes
        PROVE  [Apply(node[n], node[n].pending) EXCEPT !.queued = FALSE]
                 \in NodeStates
    <3>1. node[n].pending \in States /\ {} \in States
      BY <1>2 DEF NodeStates, States
    <3>2. CASE node[n].pending = node[n].applied
      BY <1>2, <3>1, <3>2 DEF Apply, NodeStates
    <3>3. CASE node[n].pending # node[n].applied
      BY <1>2, <3>1, <3>3 DEF Apply, NodeStates
    <3> QED BY <3>2, <3>3
  <2> QED BY <1>2, <2>1 DEF ProcessTransactions
<1>4. ASSUME ~coalesces, NEW n \in Nodes
      PROVE  /\ node'[n].applied = node[n].applied
             /\ node'[n].pending = node[n].applied
  BY <1>2, <1>4 DEF ProcessTransactions, Apply, NodeStates, IInv, AppliedInv
<1>5. ~coalesces' => AppliedInv' /\ TrackedInv'
  BY <1>1, <1>4 DEF IInv, AppliedInv, TrackedInv, IsVisible
<1>6. ~coalesces' => ExactInv'
  <2>1. \A i \in DOMAIN map : map[i] \in Nodes
    BY PositionInMap DEF IInv, TypeInv
  <2> QED BY <1>1, <1>4, <2>1 DEF IInv, ExactInv, Exact
<1> QED BY <1>1, <1>3, <1>5, <1>6 DEF IInv, TypeInv, IsMap

LEMMA DeallocateStep ==
  ASSUME IInv, NEW n \in Nodes, Deallocate(n)
  PROVE  IInv'
<1>1. UNCHANGED <<coalesces, map, rangeIsValid, previousPaths, visibleNodes>>
  BY DEF Deallocate, view
<1>2. NewNode \in NodeStates /\ {} \in States
  BY DEF NewNode, NodeStates, States
<1>3. TypeInv'
  BY <1>1, <1>2 DEF Deallocate, IInv, TypeInv, IsMap
<1>4. ~coalesces' => AppliedInv' /\ TrackedInv'
  BY <1>1 DEF Deallocate, NewNode, IInv, TypeInv, AppliedInv, TrackedInv,
              IsVisible
<1>5. ~coalesces' => ExactInv'
  <2> SUFFICES ASSUME ~coalesces, rangeIsValid, NEW i \in DOMAIN map
               PROVE  /\ Exact(node'[map[i]], wanted'[map[i]])
                      /\ i \notin previousPaths => wanted'[map[i]] = {}
    BY <1>1 DEF ExactInv
  <2>1. map[i] \in Nodes /\ map[i] # n
    BY PositionInMap DEF IInv, TypeInv, Deallocate, IsFree, Items
  <2>2. node'[map[i]] = node[map[i]] /\ wanted'[map[i]] = wanted[map[i]]
    BY <2>1 DEF Deallocate, IInv, TypeInv
  <2> QED BY <2>2 DEF IInv, ExactInv
<1> QED BY <1>3, <1>4, <1>5 DEF IInv

-------------------------------------------------------------------------------
\* Every step keeps the invariant.
LEMMA NextKeepsIInv == IInv /\ [Next]_vars => IInv'
<1> SUFFICES ASSUME IInv, [Next]_vars PROVE IInv'
  OBVIOUS
<1>1. IsMap(map)
  BY DEF IInv, TypeInv
<1>2. CASE UpdateIfNeeded
  BY <1>1, <1>2, UpdateRangesStep DEF UpdateIfNeeded, view
<1>3. CASE MoveToWindow
  BY <1>1, <1>3, UpdateRangesStep DEF MoveToWindow
<1>4. CASE ProcessTransactions
  BY <1>4, ProcessStep
<1>5. ASSUME NEW n \in Nodes,
             WillDisplayCell(n) \/ DidEndDisplayingCell(n)
      PROVE  IInv'
  BY <1>5 DEF WillDisplayCell, DidEndDisplayingCell, IInv, TypeInv,
              AppliedInv, TrackedInv, ExactInv, IsMap
<1>6. ASSUME NEW n \in Nodes,
             \/ EnterHierarchy(n) \/ ExitHierarchy(n)
             \/ ExitVisibleBlock(n) \/ Deallocate(n)
      PROVE  IInv'
  BY <1>6, EnterStep, ExitStep, DeallocateStep
<1>7. ASSUME NEW items \in Maps(IF coalesces THEN Coalesced ELSE Nodes),
             BatchUpdate(items) \/ ReloadData(items)
      PROVE  IInv'
  <2>1. IsMap(items)
    BY MapsAreMaps, RangeAssumption DEF RangeAssumption
  <2>2. CASE ReloadData(items)
    BY <2>1, <2>2, ReloadStep
  <2>3. CASE BatchUpdate(items) /\ UpdateRanges(items, onScreen, FALSE)
    BY <2>1, <2>3, UpdateRangesStep DEF BatchUpdate
  <2>4. CASE /\ BatchUpdate(items) /\ rangeIsValid' = FALSE
             /\ UNCHANGED <<previousPaths, visibleNodes, wanted, node>>
    BY <2>1, <2>4, LaterStep DEF BatchUpdate
  <2> QED BY <1>7, <2>2, <2>3, <2>4 DEF BatchUpdate
<1>8. CASE UNCHANGED vars
  BY <1>8 DEF vars, view, range, IInv, TypeInv, AppliedInv, TrackedInv,
              ExactInv, IsMap
<1> QED BY <1>2, <1>3, <1>4, <1>5, <1>6, <1>7, <1>8 DEF Next

\* The inductive invariant: the range controller knows every visible node, and
\* what is in a range lies at an index path of the last update.
THEOREM Invariance == Spec => []IInv
<1>1. Init => IInv
  BY InitEstablishes, RangeAssumption
<1> QED BY <1>1, NextKeepsIInv, PTL DEF Spec

\* No node is visible that nothing refers to: nodes are told that they left
\* the screen before they are deallocated.
THEOREM NeverVisibleWhenDeallocated == Spec => []NotVisibleWhenDeallocated
<1>1. IInv => NotVisibleWhenDeallocated
  BY DEF IInv, TrackedInv, NotVisibleWhenDeallocated, IsFree
<1> QED BY <1>1, Invariance, PTL

\* While the ranges are valid every node has exactly the states of its range,
\* wherever the map has put it.
THEOREM RangesAreExact == Spec => []RangeIsExact
<1>1. IInv => RangeIsExact
  BY DEF IInv, ExactInv, Exact, RangeIsExact, Items
<1> QED BY <1>1, Invariance, PTL

-------------------------------------------------------------------------------
(* States that coalesce *)

\* What is remembered of a node that left the hierarchy is visible.
Remembers(r) == r.preExiting # {} => "visible" \in r.preExiting

\* A visible node that is wanted visible stays so when the queue is processed.
StaysVisible(r, state) ==
  IsVisible(r) /\ "visible" \in state => "visible" \in r.pending

\* A node that does not stay visible has left the hierarchy, and gets its state
\* back when it returns.
Restored(n) ==
  /\ Remembers(node[n])
  /\ \/ StaysVisible(node[n], wanted[n])
     \/ n \notin inHierarchy /\ node[n].preExiting # {}

RestoredInv ==
  /\ inHierarchy \subseteq Nodes
  /\ coalesces => \A n \in Nodes : exiting[n] = 0 /\ Restored(n)

\* With coalescing a state that is set waits for the queue.
LEMMA SetStateWaits ==
  ASSUME coalesces, NEW r \in NodeStates, NEW state \in States
  PROVE  /\ SetState(r, state).pending = state
         /\ SetState(r, state).applied = r.applied
         /\ SetState(r, state).preExiting = r.preExiting
BY DEF SetState, NodeStates

LEMMA LeaveVisibleWaits ==
  ASSUME coalesces, NEW states \in [Nodes -> NodeStates], NEW newVisible,
         NEW n \in Nodes, NEW r, r = LeaveVisible(states, newVisible)[n]
  PROVE  /\ r.applied = states[n].applied /\ r.preExiting = states[n].preExiting
         /\ n \notin visibleNodes \ newVisible => r = states[n]
<1>1. states[n] \in NodeStates /\ states[n].applied \in States
  BY DEF NodeStates
<1>2. r = states[n] \/ r = ExitVisibleState(states[n])
  BY DEF LeaveVisible
<1>3. n \notin visibleNodes \ newVisible => r = states[n]
  BY DEF LeaveVisible
<1> QED BY <1>1, <1>2, <1>3, SetStateWaits, WithoutVisible DEF ExitVisibleState

LEMMA InitRestored == Init => RestoredInv
BY DEF Init, NewNode, RestoredInv, Restored, Remembers, StaysVisible, IsVisible

\* An update that compares visible nodes only, and a reload: whoever leaves the
\* visible nodes is no longer wanted visible.
LEMMA VisibleOnlyRestored ==
  ASSUME IInv, RestoredInv, NEW newVisible,
         node' = LeaveVisible(node, newVisible),
         \A n \in Nodes : wanted'[n] = IF n \in visibleNodes \ newVisible
                                         THEN wanted[n] \ {"visible"} ELSE wanted[n],
         UNCHANGED <<coalesces, inHierarchy, exiting>>
  PROVE  RestoredInv'
<1> SUFFICES ASSUME coalesces, NEW n \in Nodes
             PROVE  Restored(n)'
  BY DEF RestoredInv
<1>1. Restored(n)
  BY DEF RestoredInv
<1>2. /\ node'[n].applied = node[n].applied /\ node'[n].preExiting = node[n].preExiting
      /\ n \notin visibleNodes \ newVisible => node'[n] = node[n]
  BY LeaveVisibleWaits DEF IInv, TypeInv
<1> QED BY <1>1, <1>2 DEF Restored, Remembers, StaysVisible, IsVisible

\* An update of all ranges sets every node that is to be visible.
LEMMA UpdateAllRestored ==
  ASSUME IInv, RestoredInv, NEW items, IsMap(items), NEW isVisible, NEW isValid,
         UpdateAll(items, isVisible, isValid),
         UNCHANGED <<coalesces, inHierarchy, exiting>>
  PROVE  RestoredInv'
<1>1. PICK display \in SUBSET Positions(items),
           preload \in SUBSET Positions(items), lowMemory \in BOOLEAN :
        LET seen == {i \in Positions(items) : shown[items[i]] > 0}
            inRange == seen \cup display \cup preload
            StateOf(n) == StateAt(PositionOf(items, n), seen, display, preload,
                                  isVisible, lowMemory)
            visited == {items[i] : i \in Visited(items, inRange, isValid)
                                           \cap Positions(items)}
            newVisible == {n \in visited : "visible" \in StateOf(n)}
            visits == [n \in Nodes |->
                         IF n \in visited /\ node[n].pending # StateOf(n)
                           THEN SetState(node[n], StateOf(n)) ELSE node[n]]
        IN /\ node' = LeaveVisible(visits, newVisible)
           /\ wanted' = [n \in Nodes |-> IF n \in Items(items) THEN StateOf(n)
                                           ELSE wanted[n] \ {"visible"}]
  BY DEF UpdateAll
<1> DEFINE seen == {i \in Positions(items) : shown[items[i]] > 0}
           inRange == seen \cup display \cup preload
           StateOf(n) == StateAt(PositionOf(items, n), seen, display, preload,
                                 isVisible, lowMemory)
           visited == {items[i] : i \in Visited(items, inRange, isValid)
                                          \cap Positions(items)}
           newVisible == {n \in visited : "visible" \in StateOf(n)}
           visits == [n \in Nodes |->
                        IF n \in visited /\ node[n].pending # StateOf(n)
                          THEN SetState(node[n], StateOf(n)) ELSE node[n]]
<1>2. /\ node' = LeaveVisible(visits, newVisible)
      /\ wanted' = [n \in Nodes |-> IF n \in Items(items) THEN StateOf(n)
                                      ELSE wanted[n] \ {"visible"}]
  BY <1>1
<1>3. \A n : StateOf(n) \in States
  BY StateAtType
\* Who is to be visible lies in a range, and is visited.
<1>4. ASSUME NEW n \in Items(items), "visible" \in StateOf(n)
      PROVE  n \in visited
  <2>1. PICK i \in DOMAIN items : n = items[i] /\ PositionOf(items, n) = i
    BY PositionInMap DEF Items
  <2>2. i \in inRange
    BY <1>4, <2>1, NothingOutOfRange
  <2> QED BY <2>1, <2>2 DEF Visited, Positions
<1>5. visits \in [Nodes -> NodeStates]
  BY <1>3, SetStateType DEF IInv, TypeInv
<1> SUFFICES ASSUME coalesces, NEW n \in Nodes
             PROVE  Restored(n)'
  BY DEF RestoredInv
<1>6. node[n] \in NodeStates
  BY DEF IInv, TypeInv
<1>7. visits[n].preExiting = node[n].preExiting
  BY <1>3, <1>6, SetStateWaits
<1>8. n \in visited => visits[n].pending = StateOf(n)
  BY <1>3, <1>6, SetStateWaits
<1> HIDE DEF visits, visited
<1>9. /\ node'[n].preExiting = visits[n].preExiting
      /\ n \notin visibleNodes \ newVisible => node'[n] = visits[n]
  BY <1>2, <1>5, LeaveVisibleWaits
<1>10. Remembers(node'[n])
  BY <1>7, <1>9 DEF RestoredInv, Restored, Remembers
<1>11. ASSUME "visible" \in wanted'[n] PROVE "visible" \in node'[n].pending
  <2>1. n \in Items(items) /\ "visible" \in StateOf(n)
    BY <1>2, <1>11
  <2>2. n \in newVisible /\ n \in visited
    BY <1>4, <2>1
  <2> HIDE DEF newVisible, StateOf
  <2> QED BY <1>8, <1>9, <2>1, <2>2
<1> QED BY <1>10, <1>11 DEF Restored, StaysVisible

LEMMA UpdateRangesRestored ==
  ASSUME IInv, RestoredInv, NEW items, IsMap(items), NEW isVisible, NEW isValid,
         UpdateRanges(items, isVisible, isValid),
         UNCHANGED <<coalesces, inHierarchy, exiting>>
  PROVE  RestoredInv'
<1>1. CASE UpdateAll(items, isVisible, isValid)
  BY <1>1, UpdateAllRestored
<1>2. CASE UpdateVisibleOnly(items, isValid)
  <2>1. PICK inLayout \in SUBSET Items(items) :
          /\ node' = LeaveVisible(node, inLayout)
          /\ wanted' = [n \in Nodes |->
                          IF n \in visibleNodes \ inLayout
                            THEN wanted[n] \ {"visible"} ELSE wanted[n]]
    BY <1>2 DEF UpdateVisibleOnly
  <2> QED BY <2>1, VisibleOnlyRestored
<1> QED BY <1>1, <1>2 DEF UpdateRanges

LEMMA ReloadRestored ==
  ASSUME IInv, RestoredInv, NEW items, ReloadData(items)
  PROVE  RestoredInv'
<1> SUFFICES ASSUME coalesces, NEW n \in Nodes
             PROVE  Restored(n)'
  BY DEF RestoredInv, ReloadData
<1>1. node' = LeaveVisible(node, {}) /\ wanted'[n] = wanted[n] \ {"visible"}
  BY DEF ReloadData
<1>2. node'[n].preExiting = node[n].preExiting
  BY <1>1, LeaveVisibleWaits DEF IInv, TypeInv
<1> QED BY <1>1, <1>2 DEF RestoredInv, Restored, Remembers, StaysVisible

\* A node that returns has what was remembered.
LEMMA EnterRestored ==
  ASSUME IInv, RestoredInv, NEW n \in Nodes, EnterHierarchy(n)
  PROVE  RestoredInv'
<1> SUFFICES ASSUME coalesces
             PROVE  RestoredInv'
  BY DEF EnterHierarchy, RestoredInv
<1>1. /\ UNCHANGED <<coalesces, wanted, exiting>> /\ inHierarchy' = inHierarchy \cup {n}
      /\ n \notin inHierarchy
  BY DEF EnterHierarchy, range
<1>2. node[n] \in NodeStates /\ node \in [Nodes -> NodeStates]
  BY DEF IInv, TypeInv
<1>3. Remembers(node[n]) /\ (StaysVisible(node[n], wanted[n]) \/ node[n].preExiting # {})
  BY <1>1 DEF RestoredInv, Restored
<1>4. CASE node[n].preExiting # {}
  <2> DEFINE r == [node[n] EXCEPT !.preExiting = {}]
             s == SetState(r, node[n].preExiting)
  <2>1. r \in NodeStates /\ node[n].preExiting \in States /\ r.preExiting = {}
    BY <1>2 DEF NodeStates, States
  <2>2. s.pending = node[n].preExiting /\ s.preExiting = {}
    BY <2>1, SetStateWaits
  <2>3. node' = [node EXCEPT ![n] = s]
    BY <1>4 DEF EnterHierarchy
  <2> HIDE DEF s
  <2>4. Remembers(s) /\ StaysVisible(s, wanted[n])
    BY <1>3, <1>4, <2>2 DEF Restored, Remembers, StaysVisible
  <2> QED BY <1>1, <1>2, <2>3, <2>4 DEF RestoredInv, Restored
<1>5. CASE node[n].preExiting = {}
  <2>1. node' = node
    BY <1>5 DEF EnterHierarchy
  <2>2. StaysVisible(node[n], wanted[n])
    BY <1>3, <1>5 DEF Restored, StaysVisible
  <2> QED BY <1>1, <2>1, <2>2 DEF RestoredInv, Restored
<1> QED BY <1>4, <1>5

\* A node that leaves with the visible state is remembered with it.
LEMMA ExitRestored ==
  ASSUME IInv, RestoredInv, NEW n \in Nodes, ExitHierarchy(n) \/ ExitVisibleBlock(n)
  PROVE  RestoredInv'
<1>0. coalesces' = coalesces /\ inHierarchy' \subseteq Nodes
  <2>1. CASE ExitHierarchy(n)
    BY <2>1 DEF ExitHierarchy, RestoredInv
  <2>2. CASE ExitVisibleBlock(n)
    BY <2>2 DEF ExitVisibleBlock, RestoredInv
  <2> QED BY <2>1, <2>2
<1> SUFFICES ASSUME coalesces
             PROVE  RestoredInv'
  BY <1>0 DEF RestoredInv
<1>1. ~ExitVisibleBlock(n)
  <2>1. exiting[n] = 0
    BY DEF RestoredInv
  <2>2. ExitVisibleBlock(n) => exiting[n] > 0
    BY DEF ExitVisibleBlock
  <2> QED BY <2>1, <2>2
<1>2. /\ UNCHANGED <<coalesces, wanted, exiting>> /\ inHierarchy' = inHierarchy \ {n}
      /\ n \in inHierarchy
  BY <1>1 DEF ExitHierarchy, range
<1>3. node[n] \in NodeStates /\ node \in [Nodes -> NodeStates]
  BY DEF IInv, TypeInv
<1>4. Remembers(node[n]) /\ StaysVisible(node[n], wanted[n])
  BY <1>2 DEF RestoredInv, Restored
<1>5. CASE "visible" \in node[n].pending
  <2> DEFINE r == [node[n] EXCEPT !.preExiting = node[n].pending]
             s == SetState(r, node[n].pending \ {"visible"})
  <2>1. /\ r \in NodeStates /\ node[n].pending \ {"visible"} \in States
        /\ r.preExiting = node[n].pending
    BY <1>3 DEF NodeStates, States
  <2>2. s.preExiting = node[n].pending
    BY <2>1, SetStateWaits
  <2>3. node' = [node EXCEPT ![n] = s]
    <3>1. node' = [node EXCEPT ![n] = ExitVisible(node[n], FALSE)]
      BY <1>1, <1>5 DEF ExitHierarchy
    <3>2. r.pending = node[n].pending
      BY <1>3 DEF NodeStates
    <3>3. ExitVisible(node[n], FALSE) = s
      BY <1>5, <3>2 DEF ExitVisible
    <3> QED BY <3>1, <3>3
  <2> HIDE DEF s
  <2>4. Remembers(s) /\ (StaysVisible(s, wanted[n]) \/ s.preExiting # {})
    BY <1>5, <2>2 DEF Restored, Remembers, StaysVisible
  <2> QED BY <1>2, <1>3, <2>3, <2>4 DEF RestoredInv, Restored
<1>6. CASE "visible" \notin node[n].pending
  <2>1. node' = node
    BY <1>1, <1>6 DEF ExitHierarchy
  <2>2. StaysVisible(node[n], wanted[n]) \/ node[n].preExiting # {}
    BY <1>4 DEF Restored, StaysVisible
  <2> QED BY <1>2, <1>4, <2>1, <2>2 DEF RestoredInv, Restored
<1> QED BY <1>5, <1>6

\* What the queue makes of a node that is wanted visible, whether or not states
\* coalesce.
LEMMA ProcessResult ==
  ASSUME IInv, ProcessTransactions, NEW n \in Nodes
  PROVE  \/ node'[n] = node[n]
         \/ /\ node'[n].applied = node[n].pending /\ node'[n].pending = node[n].pending
            /\ \/ node'[n].preExiting = {}
               \/ /\ node'[n].preExiting = node[n].preExiting
                  /\ node[n].pending = node[n].applied
BY DEF ProcessTransactions, Apply, NodeStates, IInv, TypeInv

LEMMA ProcessRestored ==
  ASSUME IInv, RestoredInv, ProcessTransactions
  PROVE  RestoredInv'
<1>1. UNCHANGED <<coalesces, wanted, exiting, inHierarchy>>
  BY DEF ProcessTransactions, range
<1> SUFFICES ASSUME coalesces, NEW n \in Nodes
             PROVE  Restored(n)'
  BY <1>1 DEF RestoredInv
<1>2. Restored(n)
  BY DEF RestoredInv
<1> QED BY <1>1, <1>2, ProcessResult DEF Restored, Remembers, StaysVisible, IsVisible

LEMMA NextRestored == IInv /\ RestoredInv /\ [Next]_vars => RestoredInv'
<1> SUFFICES ASSUME IInv, RestoredInv, [Next]_vars PROVE RestoredInv'
  OBVIOUS
<1>1. IsMap(map)
  BY DEF IInv, TypeInv
<1>same. ASSUME UNCHANGED <<coalesces, node, wanted, exiting, inHierarchy>>
         PROVE  RestoredInv'
  BY <1>same DEF RestoredInv, Restored
<1>2. CASE UpdateIfNeeded
  BY <1>1, <1>2, UpdateRangesRestored DEF UpdateIfNeeded
<1>3. CASE MoveToWindow
  BY <1>1, <1>3, UpdateRangesRestored DEF MoveToWindow
<1>4. CASE ProcessTransactions
  BY <1>4, ProcessRestored
<1>5. ASSUME NEW n \in Nodes, WillDisplayCell(n) \/ DidEndDisplayingCell(n)
      PROVE  RestoredInv'
  BY <1>5, <1>same DEF WillDisplayCell, DidEndDisplayingCell
<1>6. ASSUME NEW n \in Nodes, EnterHierarchy(n) PROVE RestoredInv'
  BY <1>6, EnterRestored
<1>7. ASSUME NEW n \in Nodes, ExitHierarchy(n) \/ ExitVisibleBlock(n) PROVE RestoredInv'
  BY <1>7, ExitRestored
<1>8. ASSUME NEW n \in Nodes, Deallocate(n) PROVE RestoredInv'
  <2>1. /\ UNCHANGED <<coalesces, exiting, inHierarchy>>
        /\ node' = [node EXCEPT ![n] = NewNode]
        /\ wanted' = [wanted EXCEPT ![n] = {}]
    BY <1>8 DEF Deallocate
  <2>2. Remembers(NewNode) /\ StaysVisible(NewNode, {})
    BY DEF Restored, Remembers, StaysVisible, NewNode
  <2>3. \A m \in Nodes : \/ /\ node'[m] = node[m]
                             /\ wanted'[m] = wanted[m]
                          \/ /\ node'[m] = NewNode
                             /\ wanted'[m] = {}
    BY <2>1 DEF IInv, TypeInv
  <2> QED BY <2>1, <2>2, <2>3 DEF RestoredInv, Restored
<1>9. ASSUME NEW items \in Maps(IF coalesces THEN Coalesced ELSE Nodes),
             BatchUpdate(items) \/ ReloadData(items)
      PROVE  RestoredInv'
  <2>1. IsMap(items)
    BY MapsAreMaps, RangeAssumption DEF RangeAssumption
  <2>2. CASE ReloadData(items)
    BY <2>2, ReloadRestored
  <2>3. CASE BatchUpdate(items) /\ UpdateRanges(items, onScreen, FALSE)
    BY <2>1, <2>3, UpdateRangesRestored DEF BatchUpdate
  <2>4. CASE BatchUpdate(items) /\ UNCHANGED <<wanted, node>>
    BY <2>4, <1>same DEF BatchUpdate
  <2> QED BY <1>9, <2>2, <2>3, <2>4 DEF BatchUpdate
<1>10. CASE UNCHANGED vars
  BY <1>10, <1>same DEF vars, range
<1> QED BY <1>2, <1>3, <1>4, <1>5, <1>6, <1>7, <1>8, <1>9, <1>10 DEF Next

\* A node that is in the hierarchy and wanted visible is not told that it left the
\* screen by the queue or by a late block, whether or not states coalesce.
THEOREM VisibilityNeverThrashes == Spec => NoVisibilityThrash
<1>1. Init => IInv /\ RestoredInv
  BY InitEstablishes, InitRestored, RangeAssumption
<1>2. IInv /\ RestoredInv =>
        [ProcessTransactions \/ (\E n \in Nodes : ExitVisibleBlock(n)) =>
           \A n \in inHierarchy : IsVisible(node[n]) /\ "visible" \in wanted[n]
                                    => IsVisible(node'[n])]_vars
  <2> SUFFICES ASSUME IInv, RestoredInv,
                      ProcessTransactions \/ (\E n \in Nodes : ExitVisibleBlock(n)),
                      NEW m \in inHierarchy, IsVisible(node[m]), "visible" \in wanted[m]
               PROVE  IsVisible(node'[m])
    OBVIOUS
  <2>m. m \in Nodes /\ node[m] \in NodeStates /\ node \in [Nodes -> NodeStates]
    BY DEF RestoredInv, IInv, TypeInv
  <2>1. CASE ProcessTransactions
    <3>1. coalesces => "visible" \in node[m].pending
      BY <2>m DEF RestoredInv, Restored, StaysVisible
    <3>2. "visible" \in node[m].pending
      BY <2>m, <3>1 DEF IInv, AppliedInv, IsVisible
    <3> QED BY <2>m, <2>1, <3>2, ProcessResult DEF IsVisible
  <2>2. ASSUME NEW n \in Nodes, ExitVisibleBlock(n) PROVE IsVisible(node'[m])
    <3>1. CASE n # m
      BY <2>m, <2>2, <3>1 DEF ExitVisibleBlock
    <3>2. CASE n = m
      <4>1. node'[m] = ExitVisible(node[m], TRUE)
        BY <2>m, <2>2, <3>2 DEF ExitVisibleBlock
      <4> QED BY <2>m, <4>1 DEF ExitVisible, NodeStates, IsVisible
    <3> QED BY <3>1, <3>2
  <2> QED BY <2>1, <2>2
<1>3. IInv /\ RestoredInv /\ [Next]_vars => IInv' /\ RestoredInv'
  BY NextKeepsIInv, NextRestored
<1> QED BY <1>1, <1>2, <1>3, PTL DEF Spec, NoVisibilityThrash
===============================================================================
