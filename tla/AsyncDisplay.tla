----------------------------- MODULE AsyncDisplay -----------------------------
(***************************************************************************)
(* How the nodes of one range-managed cell get their contents:             *)
(* _ASDisplayLayer, the display half of ASDisplayNode, the bridge and the  *)
(* pending state through which other threads ask for a display, and the    *)
(* queue of nodes to display.                                              *)
(*                                                                         *)
(* A display takes the node's parameters on main, draws on a worker and    *)
(* sets the contents when the transaction of the layer's container         *)
(* completes.  It cannot be stopped, but it can be outdated: it keeps the  *)
(* value _displaySentinel had when it started, and cancelling increments   *)
(* the sentinel.  Here the field outdated of an operation says that the    *)
(* two differ; what such an operation draws is dropped.                    *)
(*                                                                         *)
(* What a node shows is a version: 0 is no contents, content[n] is what a  *)
(* display started now would draw.                                         *)
(***************************************************************************)
EXTENDS Naturals, FiniteSets

CONSTANTS Nodes, NoNode,
          Root,            \* the cell node
          Parent,          \* supernode of each node, NoNode for Root
          Container,       \* whose layer holds the transactions of a node
          Draws,           \* nodes that implement display
          LayerBacked,     \* nodes without a view
          Changed,         \* nodes that are changed on main
          ChangedOffMain,  \* nodes that other threads change
          Resized,         \* nodes whose bounds are emptied and restored
          Immediate,       \* nodes displayed on the spot
          MaxCalls         \* bound: calls into the cell

DisplayAssumption ==
  /\ IsFiniteSet(Nodes) /\ Root \in Nodes /\ NoNode \notin Nodes
  /\ Parent \in [Nodes -> Nodes \cup {NoNode}]
  /\ Container \in [Nodes -> Nodes]
  /\ Draws \subseteq Nodes /\ LayerBacked \subseteq Nodes
  /\ Changed \cup ChangedOffMain \cup Resized \cup Immediate \subseteq Draws
  /\ MaxCalls \in Nat
ASSUME DisplayAssumption

VARIABLES
  content,           \* version of what the node would draw
  shown,             \* version of the layer's contents
  needsDisplay,      \* CALayer's flag
  operations,        \* displays under way
  openTransaction,   \* of each container, 0 if it has none
  empty,             \* are the bounds empty
  attemptedWhileEmpty,   \* _attemptedDisplayWhileZeroSized
  pendingDisplay,    \* _pendingDisplayNodes of each node
  inDisplay,         \* does the interface state include Display
  suspended,         \* displaySuspended
  attached,          \* is the cell in a window
  clears,            \* clearContents blocks on the main queue
  renderQueue,       \* nodes scheduled for recursive display
  dirty,             \* nodes whose pending state needs display
  background,        \* what another thread is doing
  main,              \* what main is blocked on
  asked,             \* versions a blocking display must bring
  onTheSpot,         \* nodes displayed on the spot since they were cleared
  overtaken,         \* nodes displayed on the spot during a display
  calls

drawVars  == <<content, shown, needsDisplay>>
boundVars == <<empty, attemptedWhileEmpty>>
rangeVars == <<inDisplay, suspended, attached, clears>>
queueVars == <<renderQueue, dirty, background>>
noteVars  == <<onTheSpot, overtaken>>
vars == <<drawVars, operations, openTransaction, boundVars, pendingDisplay,
          rangeVars, queueVars, main, asked, noteVars, calls>>

\* The state in which a cell has been made and is in no range: its layers are
\* marked, since the nodes were given their contents before.
Init ==
  /\ content = [n \in Nodes |-> IF n \in Draws THEN 1 ELSE 0]
  /\ shown = [n \in Nodes |-> 0]
  /\ needsDisplay = Draws
  /\ operations = {}
  /\ openTransaction = [n \in Nodes |-> 0]
  /\ empty = {} /\ attemptedWhileEmpty = {}
  /\ pendingDisplay = [n \in Nodes |-> {}]
  /\ inDisplay = FALSE /\ suspended = FALSE /\ attached = FALSE
  /\ clears = 0
  /\ renderQueue = {} /\ dirty = {}
  /\ background = [at |-> "idle", node |-> NoNode]
  /\ main = "free"
  /\ asked = [n \in Nodes |-> 0]
  /\ onTheSpot = {} /\ overtaken = {}
  /\ calls = 0

------------------------------------------------------------------------------
(* The tree. *)

\* The node k levels above each node.
Above[k \in Nat] ==
  IF k = 0 THEN [n \in Nodes |-> n]
  ELSE [n \in Nodes |-> IF Above[k - 1][n] = NoNode THEN NoNode
                        ELSE Parent[Above[k - 1][n]]]

Subtree(n) == {m \in Nodes : \E k \in 0..Cardinality(Nodes) : Above[k][m] = n}

\* The nodes that wait for a display of one of D: itself and its supernode.
Waits(n, D) == {m \in D : n \in {m, Parent[m]}}
WillDisplay(D) == [n \in Nodes |-> pendingDisplay[n] \cup Waits(n, D)]
DidDisplay(D)  == [n \in Nodes |-> pendingDisplay[n] \ Waits(n, D)]

------------------------------------------------------------------------------
(* Operations and transactions. *)

IsUnderWay(n) == \E o \in operations : o.node = n /\ ~o.outdated

Of(t, c) == {o \in operations : o.transaction = t /\ Container[o.node] = c}
IsCommitted(t, c) == Of(t, c) # {} /\ openTransaction[c] # t
IsDrawn(S) == \A o \in S : o.state = "drawn"

\* The transaction a display joins: the open one, or else a new one.
Transaction(c) ==
  IF openTransaction[c] # 0 THEN openTransaction[c]
  ELSE CHOOSE t \in 1..(Cardinality(operations) + 1) :
         /\ Of(t, c) = {}
         /\ \A u \in 1..(t - 1) : Of(u, c) # {}

\* The completion blocks of the operations S.
Complete(S) ==
  LET Done == {o.node : o \in {p \in S : ~p.outdated}}
      Image(n) == (CHOOSE o \in S : o.node = n /\ ~o.outdated).parameters
  IN /\ shown' = [n \in Nodes |-> IF n \in Done THEN Image(n) ELSE shown[n]]
     /\ pendingDisplay' = DidDisplay(Done)
     /\ operations' = operations \ S

------------------------------------------------------------------------------
(* Cancelling and asking for a display: the layer's setNeedsDisplay. *)

\* Faulty variant: the sentinel is never incremented.
NeverOutdated(D) == operations

\* The operations after displaySentinel was incremented for the nodes of D:
\* what an outdated one draws no longer matters.
Outdated(D) ==
  {o \in operations : o.node \notin D} \cup
  {[o EXCEPT !.outdated = TRUE, !.parameters = 0] :
     o \in {p \in operations : p.node \in D}}

CancelAsyncDisplay(D) ==
  /\ operations' = Outdated(D)
  /\ overtaken' = overtaken \ D

SetNeedsDisplay(D) ==
  /\ CancelAsyncDisplay(D)
  /\ needsDisplay' = IF suspended THEN needsDisplay ELSE needsDisplay \cup D

\* __setNeedsDisplay
Schedule(n) ==
  renderQueue' = IF inDisplay THEN renderQueue \cup {n} ELSE renderQueue

\* CoreAnimation's displayIfNeeded on the layers of D, and the display of
\* those that are marked: an operation for each that is not empty.
DisplayIfNeeded(D) ==
  LET Marked  == IF suspended THEN {} ELSE D \cap needsDisplay
      Started == (Marked \cap Draws) \ empty
  IN /\ needsDisplay' = needsDisplay \ D
     /\ attemptedWhileEmpty' = attemptedWhileEmpty \cup (Marked \cap empty)
     /\ overtaken' = overtaken \ Marked
     /\ operations' = Outdated(Marked) \cup
          {[node |-> n, parameters |-> content[n], outdated |-> FALSE,
            state |-> "queued",
            transaction |-> Transaction(Container[n])] : n \in Started}
     /\ openTransaction' =
          [c \in Nodes |-> IF \E n \in Started : Container[n] = c
                           THEN Transaction(c) ELSE openTransaction[c]]
     /\ pendingDisplay' = WillDisplay(Started)

------------------------------------------------------------------------------
(* Calls made on the main thread. *)

Call == main = "free" /\ calls < MaxCalls /\ calls' = calls + 1
Turn == main = "free" /\ UNCHANGED calls

\* A node is changed and setNeedsDisplay is called, on main.
Change(n) ==
  /\ Call
  /\ content' = [content EXCEPT ![n] = @ + 1]
  /\ SetNeedsDisplay({n})
  /\ Schedule(n)
  /\ UNCHANGED <<shown, openTransaction, boundVars, pendingDisplay,
                 rangeVars, dirty, background, main, asked, onTheSpot>>

\* displayImmediately, after a change of the node or without one: nothing is
\* asked of CoreAnimation, suspension is ignored and the sentinel stays.
DisplayImmediately(n, changes) ==
  /\ Call
  /\ content' = [content EXCEPT ![n] = IF changes THEN @ + 1 ELSE @]
  /\ IF n \in empty
     THEN /\ attemptedWhileEmpty' = attemptedWhileEmpty \cup {n}
          /\ UNCHANGED <<shown, pendingDisplay, noteVars>>
     ELSE /\ shown' = [shown EXCEPT ![n] = content'[n]]
          /\ pendingDisplay' = DidDisplay({n})
          /\ onTheSpot' = onTheSpot \cup {n}
          /\ overtaken' = overtaken \cup (IF IsUnderWay(n) THEN {n} ELSE {})
          /\ UNCHANGED attemptedWhileEmpty
  /\ UNCHANGED <<needsDisplay, operations, openTransaction,
                 empty, rangeVars, queueVars, main, asked>>

\* The layer's setBounds: to empty bounds and back.
SetBounds(n) ==
  /\ Call
  /\ IF n \in empty
     THEN /\ empty' = empty \ {n}
          /\ attemptedWhileEmpty' = attemptedWhileEmpty \ {n}
          /\ IF n \in attemptedWhileEmpty THEN SetNeedsDisplay({n})
             ELSE UNCHANGED <<operations, needsDisplay, overtaken>>
     ELSE /\ empty' = empty \cup {n}
          /\ UNCHANGED <<attemptedWhileEmpty, operations, needsDisplay,
                         overtaken>>
  /\ UNCHANGED <<content, shown, openTransaction, pendingDisplay,
                 rangeVars, queueVars, main, asked, onTheSpot>>

\* __enterHierarchy: a layer that has no contents is marked.
EnterHierarchy ==
  /\ Call
  /\ ~attached /\ attached' = TRUE
  /\ SetNeedsDisplay({n \in Nodes : shown[n] = 0})
  /\ UNCHANGED <<content, shown, openTransaction, boundVars,
                 pendingDisplay, inDisplay, suspended, clears, queueVars, main,
                 asked, onTheSpot>>

ExitHierarchy ==
  /\ Call
  /\ attached /\ attached' = FALSE
  /\ UNCHANGED <<drawVars, operations, openTransaction, boundVars,
                 pendingDisplay, inDisplay, suspended, clears, queueVars, main,
                 asked, noteVars>>

\* setDisplaySuspended: on every node of the cell.  Resuming marks the layers
\* and announces the displays to the supernodes; suspending cancels the displays
\* and tells the supernodes not to wait for them.
Announced(n) == {m \in Draws : Parent[m] = n}

Resume ==
  /\ CancelAsyncDisplay(Nodes)
  /\ needsDisplay' = Nodes
  /\ pendingDisplay' = [n \in Nodes |-> pendingDisplay[n] \cup Announced(n)]

Suspend ==
  /\ CancelAsyncDisplay(Nodes)
  /\ pendingDisplay' = [n \in Nodes |-> pendingDisplay[n] \ Announced(n)]
  /\ UNCHANGED needsDisplay

\* Faulty variant: resuming display does not mark the layers.
ForgetfulSetDisplaySuspended(flag) ==
  /\ suspended' = flag
  /\ IF suspended # flag /\ flag THEN Suspend
     ELSE UNCHANGED <<operations, overtaken, needsDisplay, pendingDisplay>>

\* Faulty variant: suspending does not cancel the displays under way.
LeakySetDisplaySuspended(flag) ==
  /\ suspended' = flag
  /\ CASE suspended = flag ->
            UNCHANGED <<operations, overtaken, needsDisplay, pendingDisplay>>
       [] suspended # flag /\ flag ->
            /\ pendingDisplay' =
                 [n \in Nodes |-> pendingDisplay[n] \ Announced(n)]
            /\ UNCHANGED <<operations, overtaken, needsDisplay>>
       [] suspended # flag /\ ~flag -> Resume

\* Faulty variant: the supernodes are not told that a display was cancelled.
SilentSetDisplaySuspended(flag) ==
  /\ suspended' = flag
  /\ CASE suspended = flag ->
            UNCHANGED <<operations, overtaken, needsDisplay, pendingDisplay>>
       [] suspended # flag /\ flag ->
            /\ CancelAsyncDisplay(Nodes)
            /\ UNCHANGED <<needsDisplay, pendingDisplay>>
       [] suspended # flag /\ ~flag -> Resume

SetDisplaySuspended(flag) ==
  /\ suspended' = flag
  /\ CASE suspended = flag ->
            UNCHANGED <<operations, overtaken, needsDisplay, pendingDisplay>>
       [] suspended # flag /\ flag -> Suspend
       [] suspended # flag /\ ~flag -> Resume

\* recursivelySetInterfaceState: with Display.
EnterDisplay ==
  /\ Call
  /\ ~inDisplay /\ inDisplay' = TRUE
  /\ SetDisplaySuspended(FALSE)
  /\ renderQueue' = renderQueue \cup {Root}
  /\ UNCHANGED <<content, shown, openTransaction, boundVars, attached, clears,
                 dirty, background, main, asked, onTheSpot>>

\* recursivelySetInterfaceState: without Display; the contents are cleared in a
\* later turn of the main queue.
ExitDisplay ==
  /\ Call
  /\ inDisplay /\ inDisplay' = FALSE
  /\ SetDisplaySuspended(TRUE)
  /\ clears' = clears + 1
  /\ UNCHANGED <<content, shown, openTransaction, boundVars, attached,
                 queueVars, main, asked, onTheSpot>>

\* recursivelyEnsureDisplaySynchronously:YES starts what is marked and blocks.
EnsureDisplay ==
  /\ Call
  /\ DisplayIfNeeded(Draws)
  /\ main' = "blocked"
  /\ asked' = [n \in Nodes |->
                 IF n \in dirty \cup {background.node} THEN 0 ELSE content[n]]
  /\ UNCHANGED <<content, shown, empty, rangeVars, queueVars, onTheSpot>>

------------------------------------------------------------------------------
(* Turns of the run loop. *)

\* CoreAnimation displays the marked layers of a window when it commits.
CommitLayers ==
  /\ Turn
  /\ attached /\ needsDisplay # {}
  /\ DisplayIfNeeded(Nodes)
  /\ UNCHANGED <<content, shown, empty, rangeVars, queueVars, main, asked,
                 onTheSpot>>

\* The render queue displays a node and what is below it.
DisplayScheduled(n) ==
  /\ Turn
  /\ n \in renderQueue /\ renderQueue' = renderQueue \ {n}
  /\ DisplayIfNeeded(Subtree(n) \cap Draws)
  /\ UNCHANGED <<content, shown, empty, rangeVars, dirty, background, main,
                 asked, onTheSpot>>

\* The transaction group commits the open transactions.
CommitTransactions ==
  /\ Turn
  /\ \E c \in Nodes : openTransaction[c] # 0
  /\ openTransaction' = [c \in Nodes |-> 0]
  /\ UNCHANGED <<drawVars, operations, boundVars, pendingDisplay, rangeVars,
                 queueVars, main, asked, noteVars>>

CompleteTransaction(t, c) ==
  /\ Turn
  /\ IsCommitted(t, c) /\ IsDrawn(Of(t, c))
  /\ Complete(Of(t, c))
  /\ UNCHANGED <<content, needsDisplay, openTransaction,
                 boundVars, rangeVars, queueVars, main, asked, noteVars>>

\* The blocks that leaving the display range put on the main queue.
ClearContents ==
  /\ Turn
  /\ clears > 0 /\ clears' = clears - 1
  /\ IF inDisplay THEN UNCHANGED <<shown, onTheSpot>>
     ELSE /\ shown' = [n \in Nodes |-> 0]
          /\ onTheSpot' = {}
  /\ UNCHANGED <<content, needsDisplay, operations, openTransaction, boundVars,
                 pendingDisplay, inDisplay, suspended, attached, queueVars,
                 main, asked, overtaken>>

\* The pending state of the dirty nodes is applied: to a layer it brings its
\* setNeedsDisplay, to a view nothing.
Flush ==
  /\ Turn
  /\ dirty # {} /\ dirty' = {}
  /\ SetNeedsDisplay(dirty \cap LayerBacked)
  /\ UNCHANGED <<content, shown, openTransaction, boundVars,
                 pendingDisplay, rangeVars, renderQueue, background, main,
                 asked, onTheSpot>>

\* Faulty variant: only the open transactions are waited for.
HastyDisplayEnsured ==
  LET Open == {o \in operations :
                 o.transaction = openTransaction[Container[o.node]]}
  IN /\ main = "blocked" /\ IsDrawn(Open)
     /\ Complete(Open)
     /\ openTransaction' = [c \in Nodes |-> 0]
     /\ main' = "free"
     /\ asked' = [n \in Nodes |-> 0]
     /\ UNCHANGED <<content, needsDisplay, boundVars, rangeVars, queueVars,
                    noteVars, calls>>

\* Every transaction is committed, drawn and completed: the call returns.
DisplayEnsured ==
  /\ main = "blocked" /\ IsDrawn(operations)
  /\ Complete(operations)
  /\ openTransaction' = [c \in Nodes |-> 0]
  /\ main' = "free"
  /\ asked' = [n \in Nodes |-> 0]
  /\ UNCHANGED <<content, needsDisplay, boundVars, rangeVars,
                 queueVars, noteVars, calls>>

------------------------------------------------------------------------------
(* Other threads. *)

Draw(o) ==
  /\ o.state = "queued"
  /\ operations' = (operations \ {o}) \cup {[o EXCEPT !.state = "drawn"]}
  /\ UNCHANGED <<drawVars, openTransaction, boundVars, pendingDisplay,
                 rangeVars, queueVars, main, asked, noteVars, calls>>

offMainUnchanged == <<shown, needsDisplay, operations,
                      openTransaction, boundVars, pendingDisplay, rangeVars,
                      main, asked, noteVars>>

\* A node is changed on another thread ...
ChangeOffMain(n) ==
  /\ background.at = "idle" /\ calls < MaxCalls /\ calls' = calls + 1
  /\ content' = [content EXCEPT ![n] = @ + 1]
  /\ background' = [at |-> "changed", node |-> n]
  /\ UNCHANGED <<offMainUnchanged, renderQueue, dirty>>

\* ... its setNeedsDisplay goes to the pending state, under the node's lock ...
MarkPending ==
  /\ background.at = "changed"
  /\ dirty' = dirty \cup {background.node}
  /\ background' = [background EXCEPT !.at = "marked"]
  /\ UNCHANGED <<offMainUnchanged, content, renderQueue, calls>>

\* ... and, without it, the node to the render queue.
ScheduleOffMain ==
  /\ background.at = "marked"
  /\ Schedule(background.node)
  /\ background' = [at |-> "idle", node |-> NoNode]
  /\ UNCHANGED <<offMainUnchanged, content, dirty, calls>>

Next ==
  \/ \E n \in Changed : Change(n)
  \/ \E n \in Resized : SetBounds(n)
  \/ \E n \in Immediate, changes \in BOOLEAN : DisplayImmediately(n, changes)
  \/ EnterHierarchy \/ ExitHierarchy \/ EnterDisplay \/ ExitDisplay
  \/ EnsureDisplay \/ DisplayEnsured
  \/ CommitLayers \/ CommitTransactions \/ ClearContents \/ Flush
  \/ \E n \in Nodes : DisplayScheduled(n)
  \/ \E o \in operations : CompleteTransaction(o.transaction, Container[o.node])
  \/ \E o \in operations : Draw(o)
  \/ \E n \in ChangedOffMain : ChangeOffMain(n)
  \/ MarkPending \/ ScheduleOffMain

Spec == Init /\ [][Next]_vars

------------------------------------------------------------------------------
(* Properties. *)

Operation == [node : Draws, parameters : Nat, outdated : BOOLEAN,
              state : {"queued", "drawn"}, transaction : Nat \ {0}]

\* Every variable has its type.
TypeOK ==
  /\ content \in [Nodes -> Nat] /\ shown \in [Nodes -> Nat]
  /\ needsDisplay \subseteq Nodes
  /\ operations \subseteq Operation
  /\ openTransaction \in [Nodes -> Nat]
  /\ empty \subseteq Nodes /\ attemptedWhileEmpty \subseteq Nodes
  /\ pendingDisplay \in [Nodes -> SUBSET Nodes]
  /\ inDisplay \in BOOLEAN /\ suspended \in BOOLEAN /\ attached \in BOOLEAN
  /\ clears \in Nat
  /\ renderQueue \subseteq Nodes /\ dirty \subseteq Nodes
  /\ background \in [at : {"idle", "changed", "marked"},
                     node : Nodes \cup {NoNode}]
  /\ main \in {"free", "blocked"}
  /\ asked \in [Nodes -> Nat]
  /\ onTheSpot \subseteq Nodes /\ overtaken \subseteq Nodes
  /\ calls \in 0..MaxCalls

\* What will still bring the newest version of n to its layer: the mark, a
\* thread on its way to set it, a display with the newest parameters, or the
\* memory that a display failed for want of a size.
WillBeShown(n) ==
  \/ n \in needsDisplay \cup dirty \cup {background.node}
  \/ \E o \in operations :
       o.node = n /\ ~o.outdated /\ o.parameters = content[n]
  \/ n \in empty \cap attemptedWhileEmpty

\* A change is never forgotten: unless display is suspended (resuming it
\* displays), a node that does not show its newest version has something that
\* will bring it.  A node displayed on the spot while an older display of it
\* was under way is excepted: that display still sets its older contents.
ChangesAreNotForgotten ==
  \A n \in Draws \ overtaken :
    ~suspended /\ shown[n] # content[n] => WillBeShown(n)

\* Outside the display range no contents stay: once the clearContents blocks
\* have run nothing is shown, whatever displays were under way at the time,
\* except by displayImmediately, which ignores the range.
ClearedOutsideRange ==
  suspended /\ clears = 0 => \A n \in Nodes \ onTheSpot : shown[n] = 0

\* _pendingDisplayNodes, whose emptiness removes the placeholder and calls
\* hierarchyDisplayDidFinish: it holds every node whose display is under way,
\* and no node that nothing will display.
PendingIsExact ==
  \A n \in Draws :
    /\ IsUnderWay(n) /\ n \notin overtaken =>
         \A m \in {n, Parent[n]} \ {NoNode} : n \in pendingDisplay[m]
    /\ \A m \in Nodes : n \in pendingDisplay[m] =>
         \/ IsUnderWay(n) \/ n \in needsDisplay
         \/ n \in empty \cap attemptedWhileEmpty
         \/ suspended /\ m = n

\* Contents are replaced by newer ones or cleared, never by older ones, however
\* the transactions of a layer overtake one another; displays that a
\* displayImmediately overtook are excepted.
ContentsNeverRegress ==
  [][\A n \in Draws \ overtaken :
       shown'[n] < shown[n] => shown'[n] = 0 /\ ~inDisplay]_vars

\* recursivelyEnsureDisplaySynchronously: returns with every node showing at
\* least what it had to show when the call was made.
EnsuredMeansShown ==
  [][main = "blocked" /\ main' = "free" =>
       \A n \in Draws \ (overtaken \cup empty) :
         ~suspended => shown'[n] >= asked[n]]_vars
===============================================================================
