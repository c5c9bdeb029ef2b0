--------------------------- MODULE RangeController ----------------------------
(* The range controller of a collection or table view and the interface      *)
(* states of its cell nodes: ASRangeController.mm, and setInterfaceState:,    *)
(* applyPendingInterfaceState: and the entering and leaving of the hierarchy  *)
(* of ASDisplayNode.mm, with ASCATransactionQueue (ASRunLoopQueue.mm).        *)
(* Everything runs on main, one event after the other. Which elements lie in  *)
(* a range is the layout's matter: any of them may.                           *)
EXTENDS Integers, FiniteSets

CONSTANTS
  Nodes,     \* the cell nodes, one per element
  Modes,     \* with FALSE, states are applied when they are set; with TRUE the
             \* experiment that coalesces them runs (the queue is enabled)
  Coalesced, \* bound: the nodes that come into the map when states coalesce
  MaxCells,  \* bound: cells that show one element at a time
  MaxBlocks  \* bound: blocks of one node that wait in the main queue

ASSUME RangeAssumption ==
  /\ Modes \subseteq BOOLEAN /\ Coalesced \subseteq Nodes
  /\ MaxCells \in Nat \ {0} /\ MaxBlocks \in Nat \ {0}

VARIABLES
  coalesces,      \* ASCATransactionQueueGet().enabled
  map,            \* the items of visibleMap; positions stand for index paths
  onScreen,       \* the view is in a window, or visible in its own range
  shown,          \* _visibleElements, a counted set
  needsUpdate,    \* _needsRangeUpdate, with its block in the main queue
  rangeIsValid,   \* _rangeIsValid
  previousPaths,  \* _allPreviousIndexPaths
  visibleNodes,   \* _visibleNodes, which retains its members
  node,           \* the states of each node, and whether the queue holds it
  inHierarchy,    \* nodes with isInHierarchy
  exiting,        \* exitVisibleInterfaceState blocks in the main queue
  wanted          \* the last decision of the range controller on each node

view == <<map, onScreen, shown>>
range == <<needsUpdate, rangeIsValid, previousPaths, visibleNodes, wanted>>
vars == <<coalesces, view, range, node, inHierarchy, exiting>>

-------------------------------------------------------------------------------
States == SUBSET {"preload", "display", "visible"}
Visible == {"preload", "display", "visible"}
IsVisible(r) == "visible" \in r.applied

\* A node that nobody has given a state.
NewNode == [applied |-> {}, pending |-> {}, preExiting |-> {}, queued |-> FALSE]

Positions(items) == DOMAIN items
Items(items) == {items[i] : i \in DOMAIN items}

\* The index path of a node in the map.
PositionOf(items, n) == CHOOSE i \in DOMAIN items : items[i] = n

\* Maps over some nodes: an element has one place.
Maps(nodes) == {m \in UNION {[1 .. k -> nodes] : k \in 0 .. Cardinality(nodes)} :
                  \A i, j \in DOMAIN m : m[i] = m[j] => i = j}

-------------------------------------------------------------------------------
(* Interface states of a node *)

\* The state becomes the node's, whose callbacks are called; what was
\* remembered of a layer that left the hierarchy is out of date.
Apply(r, state) ==
  [r EXCEPT !.applied = state, !.pending = state,
            !.preExiting = IF state = r.applied THEN @ ELSE {}]

\* Setting a state applies it, or leaves it to the queue.
SetState(r, state) ==
  CASE ~coalesces -> Apply(r, state)
    [] coalesces /\ state = r.pending -> r
    [] coalesces /\ state # r.pending ->
         [r EXCEPT !.pending = state, !.queued = TRUE]

\* exitInterfaceState: takes the state from the one that is applied.
ExitVisibleState(r) == SetState(r, r.applied \ {"visible"})

\* Faulty variant: only the nodes that are still in the map are told.
FaultyLeaveVisible(states, newVisible) ==
  [n \in Nodes |-> IF /\ n \in (visibleNodes \cap Items(map)) \ newVisible
                      /\ IsVisible(states[n])
                     THEN ExitVisibleState(states[n]) ELSE states[n]]

\* The nodes that lost their place among the visible ones are told; states is
\* what the update has made of the nodes so far.
LeaveVisible(states, newVisible) ==
  [n \in Nodes |-> IF n \in visibleNodes \ newVisible /\ IsVisible(states[n])
                     THEN ExitVisibleState(states[n]) ELSE states[n]]

-------------------------------------------------------------------------------
(* The range controller *)

\* What the node at position i is given. A view that is not visible itself
\* prepares what it would show and preloads the rest of its display range.
StateAt(i, seen, display, preload, isVisible, lowMemory) ==
  IF isVisible
    THEN IF i \in seen THEN Visible
         ELSE (IF i \in preload THEN {"preload"} ELSE {})
                \cup (IF i \in display THEN {"display"} ELSE {})
    ELSE CASE i \in seen ->
                {"preload"} \cup (IF lowMemory THEN {} ELSE {"display"})
           [] i \in display \ seen -> {"preload"}
           [] OTHER -> {}

\* Faulty variant: an update does not look at what was in a range before.
FaultyVisited(items, inRange, isValid) ==
  inRange \cup (IF isValid THEN {} ELSE Positions(items))

\* The positions an update looks at: those in a range now or in the last
\* update, and all of them after the data has changed.
Visited(items, inRange, isValid) ==
  inRange \cup previousPaths \cup (IF isValid THEN {} ELSE Positions(items))

\* With no cell on display only the visible nodes are compared to the layout,
\* and the rest waits for another update.
UpdateVisibleOnly(items, isValid) ==
  \E inLayout \in SUBSET Items(items) :
    /\ node' = LeaveVisible(node, inLayout)
    /\ wanted' = [n \in Nodes |->
                    IF n \in visibleNodes \ inLayout
                      THEN wanted[n] \ {"visible"} ELSE wanted[n]]
    /\ visibleNodes' = inLayout
    /\ rangeIsValid' = isValid
    /\ UNCHANGED previousPaths

\* The display range is taken to lie in the preload range, as it does with the
\* default parameters.
UpdateAll(items, isVisible, isValid) ==
  \E display, preload \in SUBSET Positions(items), lowMemory \in BOOLEAN :
    LET seen == {i \in Positions(items) : shown[items[i]] > 0}
        inRange == seen \cup display \cup preload
        StateOf(n) == StateAt(PositionOf(items, n), seen, display, preload,
                              isVisible, lowMemory)
        visited == {items[i] : i \in Visited(items, inRange, isValid)
                                       \cap Positions(items)}
        newVisible == {n \in visited : "visible" \in StateOf(n)}
        visits == [n \in Nodes |-> IF n \in visited /\ node[n].pending # StateOf(n)
                                     THEN SetState(node[n], StateOf(n))
                                     ELSE node[n]]
    IN /\ display \subseteq preload
       /\ lowMemory => display = {}
       /\ node' = LeaveVisible(visits, newVisible)
       /\ wanted' = [n \in Nodes |-> IF n \in Items(items) THEN StateOf(n)
                                       ELSE wanted[n] \ {"visible"}]
       /\ visibleNodes' = newVisible
       /\ previousPaths' = inRange
       /\ rangeIsValid' = TRUE

UpdateRanges(items, isVisible, isValid) ==
  /\ needsUpdate' = FALSE
  /\ IF \A n \in Nodes : shown[n] = 0
       THEN UpdateVisibleOnly(items, isValid)
       ELSE UpdateAll(items, isVisible, isValid)

-------------------------------------------------------------------------------
Init ==
  /\ coalesces \in Modes
  /\ map = << >> /\ onScreen = FALSE
  /\ shown = [n \in Nodes |-> 0]
  /\ needsUpdate = FALSE /\ rangeIsValid = TRUE
  /\ previousPaths = {} /\ visibleNodes = {}
  /\ node = [n \in Nodes |-> NewNode]
  /\ wanted = [n \in Nodes |-> {}]
  /\ inHierarchy = {} /\ exiting = [n \in Nodes |-> 0]

\* The block of setNeedsUpdate, a layout pass or the end of an animation.
UpdateIfNeeded ==
  /\ needsUpdate
  /\ UpdateRanges(map, onScreen, rangeIsValid)
  /\ UNCHANGED <<coalesces, view, inHierarchy, exiting>>

\* The view enters or leaves its window.
MoveToWindow ==
  /\ onScreen' = ~onScreen
  /\ UpdateRanges(map, onScreen', rangeIsValid)
  /\ UNCHANGED <<coalesces, map, shown, inHierarchy, exiting>>

\* The view puts a cell with the element on display.
WillDisplayCell(n) ==
  /\ n \in Items(map) /\ shown[n] < MaxCells
  /\ shown' = [shown EXCEPT ![n] = @ + 1]
  /\ needsUpdate' = TRUE
  /\ UNCHANGED <<coalesces, map, onScreen, rangeIsValid, previousPaths,
                 visibleNodes, wanted, node, inHierarchy, exiting>>

\* A cell is gone, whose element may no longer be in the map.
DidEndDisplayingCell(n) ==
  /\ shown[n] > 0
  /\ shown' = [shown EXCEPT ![n] = @ - 1]
  /\ needsUpdate' = TRUE
  /\ UNCHANGED <<coalesces, map, onScreen, rangeIsValid, previousPaths,
                 visibleNodes, wanted, node, inHierarchy, exiting>>

\* A change set reaches the view, which has the new map at once and then makes
\* up for the updates that are due. An experiment has it always update; a view
\* without a data source, or with a reload or a move of the user's under way, puts
\* it off.
BatchUpdate(items) ==
  /\ map' = items
  /\ \/ UpdateRanges(items, onScreen, FALSE)
     \/ /\ rangeIsValid' = FALSE
        /\ UNCHANGED <<needsUpdate, previousPaths, visibleNodes, wanted, node>>
  /\ UNCHANGED <<coalesces, onScreen, shown, inHierarchy, exiting>>

\* A reload: no node is visible any more, and the view, unless it puts it off, asks
\* for its sections, which makes an update due.
ReloadData(items) ==
  /\ map' = items
  /\ node' = LeaveVisible(node, {})
  /\ wanted' = [n \in Nodes |-> wanted[n] \ {"visible"}]
  /\ visibleNodes' = {}
  /\ rangeIsValid' = FALSE /\ needsUpdate' \in {needsUpdate, TRUE}
  /\ UNCHANGED <<coalesces, onScreen, shown, previousPaths, inHierarchy, exiting>>

-------------------------------------------------------------------------------
(* The hierarchy, and what main does later *)

\* Faulty variant: what was remembered is dropped and not given back.
FaultyEnterHierarchy(n) ==
  /\ n \notin inHierarchy
  /\ inHierarchy' = inHierarchy \cup {n}
  /\ node' = [node EXCEPT ![n].preExiting = {}]
  /\ UNCHANGED <<coalesces, view, range, exiting>>

\* With coalescing, a layer that left and returns has its state back.
EnterHierarchy(n) ==
  /\ n \notin inHierarchy
  /\ inHierarchy' = inHierarchy \cup {n}
  /\ LET r == node[n] IN
     node' = IF coalesces /\ r.preExiting # {}
               THEN [node EXCEPT ![n] = SetState([r EXCEPT !.preExiting = {}],
                                                 r.preExiting)]
               ELSE node
  /\ UNCHANGED <<coalesces, view, range, exiting>>

\* The block looks again before it takes the visible state; what it remembers
\* is read with coalescing only.
ExitVisible(r, stillInHierarchy) ==
  LET remembered == [r EXCEPT !.preExiting = IF coalesces THEN r.pending ELSE {}]
  IN IF ~stillInHierarchy /\ "visible" \in r.pending
       THEN SetState(remembered, r.pending \ {"visible"}) ELSE remembered

\* Leaving the hierarchy ends the visible state, without coalescing only in a
\* later block of the main queue, which retains the node.
ExitHierarchy(n) ==
  /\ n \in inHierarchy
  /\ inHierarchy' = inHierarchy \ {n}
  /\ IF coalesces
       THEN /\ node' = IF "visible" \in node[n].pending
                         THEN [node EXCEPT ![n] = ExitVisible(@, FALSE)] ELSE node
            /\ UNCHANGED exiting
       ELSE /\ "visible" \in node[n].pending => exiting[n] < MaxBlocks
            /\ exiting' = IF "visible" \in node[n].pending
                            THEN [exiting EXCEPT ![n] = @ + 1] ELSE exiting
            /\ UNCHANGED node
  /\ UNCHANGED <<coalesces, view, range>>

ExitVisibleBlock(n) ==
  /\ exiting[n] > 0
  /\ exiting' = [exiting EXCEPT ![n] = @ - 1]
  /\ node' = [node EXCEPT ![n] = ExitVisible(@, n \in inHierarchy)]
  /\ UNCHANGED <<coalesces, view, range, inHierarchy>>

\* The queue is processed before CoreAnimation commits: every node that waits
\* has its pending state applied.
ProcessTransactions ==
  /\ \E n \in Nodes : node[n].queued
  /\ node' = [n \in Nodes |->
                IF node[n].queued
                  THEN [Apply(node[n], node[n].pending) EXCEPT !.queued = FALSE]
                  ELSE node[n]]
  /\ UNCHANGED <<coalesces, view, range, inHierarchy, exiting>>

\* Nothing of the framework refers to the node any more.
IsFree(n) ==
  /\ n \notin Items(map) /\ shown[n] = 0 /\ n \notin visibleNodes
  /\ n \notin inHierarchy /\ exiting[n] = 0 /\ ~node[n].queued

Deallocate(n) ==
  /\ IsFree(n) /\ node[n] # NewNode
  /\ node' = [node EXCEPT ![n] = NewNode]
  /\ wanted' = [wanted EXCEPT ![n] = {}]
  /\ UNCHANGED <<coalesces, view, needsUpdate, rangeIsValid, previousPaths,
                 visibleNodes, inHierarchy, exiting>>

Next ==
  \/ UpdateIfNeeded \/ MoveToWindow \/ ProcessTransactions
  \/ \E n \in Nodes : \/ WillDisplayCell(n) \/ DidEndDisplayingCell(n)
                      \/ EnterHierarchy(n) \/ ExitHierarchy(n)
                      \/ ExitVisibleBlock(n) \/ Deallocate(n)
  \/ \E items \in Maps(IF coalesces THEN Coalesced ELSE Nodes) :
       BatchUpdate(items) \/ ReloadData(items)

Spec == Init /\ [][Next]_vars

-------------------------------------------------------------------------------
\* The state has the types the code declares.
TypeOK ==
  /\ coalesces \in BOOLEAN /\ map \in Maps(Nodes) /\ onScreen \in BOOLEAN
  /\ shown \in [Nodes -> 0 .. MaxCells]
  /\ needsUpdate \in BOOLEAN /\ rangeIsValid \in BOOLEAN
  /\ previousPaths \in SUBSET Nat /\ visibleNodes \in SUBSET Nodes
  /\ node \in [Nodes -> [applied : States, pending : States,
                         preExiting : States, queued : BOOLEAN]]
  /\ inHierarchy \in SUBSET Nodes /\ exiting \in [Nodes -> 0 .. MaxBlocks]
  /\ wanted \in [Nodes -> States]

\* A node that nothing refers to is not visible ("Currently we guarantee that
\* nodes will not be marked visible when deallocated", ASRangeController.mm 190):
\* whatever was deleted, moved, reloaded or taken out of the hierarchy, its
\* didExitVisibleState was called. States are applied when they are set.
NotVisibleWhenDeallocated ==
  ~coalesces => \A n \in Nodes : IsFree(n) => ~IsVisible(node[n])

\* While the ranges are valid, every node of the map has the preload and
\* display states of the range it lies in, also when its index path was
\* another's before, and is visible only if the last update found it so.
RangeIsExact ==
  ~coalesces /\ rangeIsValid =>
    \A n \in Items(map) :
      /\ node[n].applied \subseteq wanted[n]
      /\ wanted[n] \ {"visible"} \subseteq node[n].applied

\* Outside updates of the ranges, a node that the range controller wants
\* visible and that is in the hierarchy does not lose the visible state: a
\* layer that was taken out and put back in the same turn is not told.
NoVisibilityThrash ==
  [][ProcessTransactions \/ (\E n \in Nodes : ExitVisibleBlock(n)) =>
       \A n \in inHierarchy : IsVisible(node[n]) /\ "visible" \in wanted[n]
                                => IsVisible(node'[n])]_vars
===============================================================================
