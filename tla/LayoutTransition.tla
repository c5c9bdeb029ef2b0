--------------------------- MODULE LayoutTransition ---------------------------
(***************************************************************************)
(* The layouts of a tree of display nodes whose layers are loaded, and the *)
(* layout transitions of its root.                                         *)
(*                                                                         *)
(* A transition has an id.  It marks every subnode as LayoutPending under  *)
(* that id, measures the tree in the background and commits on main; in    *)
(* the meantime nobody else may lay the subnodes out.  Another transition  *)
(* or a cancellation supersedes it by changing the id of the root, and     *)
(* whatever the transition does later is to be dropped.                    *)
(*                                                                         *)
(* A layout remembers the value _layoutVersion had when it was measured,   *)
(* and is valid until the version has grown.  Here the layout carries      *)
(* valid, and current says that the node has not changed since the         *)
(* measurement.  Sizes are left out: whether a layout has the size of the  *)
(* bounds, or is asked for in another size, is any value.                  *)
(***************************************************************************)
EXTENDS Naturals, FiniteSets

CONSTANTS Nodes, NoNode,
          Root,              \* the node that performs transitions
          Tree,              \* the supernode each node has at first
          Moved,             \* nodes that are removed and inserted
          LaidOut,           \* nodes whose layouts are kept track of
          Cancellers,        \* threads that call cancelLayoutTransition
          CompletionCalls,   \* what a measurement completion block calls
          MaxTransitions     \* bound: transitions that are started

LayoutTransitionAssumption ==
  /\ LaidOut \subseteq Nodes /\ Root \in LaidOut /\ NoNode \notin Nodes
  /\ Tree \in [Nodes -> Nodes \cup {NoNode}] /\ Tree[Root] = NoNode
  /\ \A S \in SUBSET Nodes : S # {} => \E n \in S : Tree[n] \notin S
  /\ Moved \subseteq Nodes \ {Root}
  /\ Cancellers \subseteq {"main", "background"}
  /\ CompletionCalls \subseteq {"nothing", "transition"}
  /\ MaxTransitions \in Nat
ASSUME LayoutTransitionAssumption

VARIABLES
  supernode,
  calculated,           \* _calculatedDisplayNodeLayout of each node
  pending,              \* _pendingDisplayNodeLayout of each node
  needsLayout,          \* layers marked for a layout pass
  transitionID,         \* _transitionID of Root
  lastID,               \* gNextTransitionID
  transitions,          \* the blocks of each transition, and its new layout
  layoutPending,        \* nodes whose hierarchy state has LayoutPending
  pendingTransitionID,  \* _pendingTransitionID of each node
  main,                 \* what main is in the middle of
  nextLayout,           \* of the layout pass main is in
  canceller,            \* is another thread in the middle of a cancellation
  cancelled,            \* transitions that were cancelled and have not ended
  missed                \* nodes changed while their layout pass let go its lock

layoutVars     == <<calculated, pending, needsLayout, nextLayout, missed>>
transitionVars == <<transitionID, lastID, transitions, cancelled>>
stateVars      == <<layoutPending, pendingTransitionID>>
vars == <<supernode, layoutVars, transitionVars, stateVars, main, canceller>>

InvalidTransitionID == 0
DefaultTransitionID == 1
Ids == 1..MaxTransitions

NoLayout    == [valid |-> FALSE, current |-> FALSE]
FreshLayout == [valid |-> TRUE, current |-> TRUE]
Ended       == [at |-> "ended", layout |-> NoLayout]
Free        == [at |-> "free", id |-> 0, node |-> NoNode]

Init ==
  /\ supernode = Tree
  /\ calculated = [n \in Nodes |-> NoLayout]
  /\ pending = [n \in Nodes |-> NoLayout]
  /\ needsLayout = {Root}
  /\ transitionID = InvalidTransitionID
  /\ lastID = 0
  /\ transitions = [t \in Ids |-> Ended]
  /\ layoutPending = {}
  /\ pendingTransitionID = [n \in Nodes |-> InvalidTransitionID]
  /\ main = Free
  /\ nextLayout = NoLayout
  /\ canceller = "idle"
  /\ cancelled = {}
  /\ missed = {}

------------------------------------------------------------------------------
(* The tree. *)

\* A node and the nodes above it.
Path(n) ==
  LET up[m \in Nodes \cup {NoNode}] ==
        IF m = NoNode THEN {} ELSE {m} \cup up[supernode[m]]
  IN  up[n]

Subtree(n)  == {m \in Nodes : n \in Path(m)}
Subnodes(n) == Subtree(n) \ {n}
Top(n)      == CHOOSE m \in Path(n) : supernode[m] = NoNode

------------------------------------------------------------------------------
(* Measuring. *)

\* _locked_isLayoutTransitionInvalid, with the id of the context, if any.
IsLayoutTransitionInvalid(n, context) ==
  n \in layoutPending /\ pendingTransitionID[n] # context

\* _pendingDisplayNodeLayout after layoutThatFits: was called for the nodes M
\* and had no layout of the size it was asked for.
Measured(layouts, M, context) ==
  [n \in Nodes |-> IF n \in M /\ ~IsLayoutTransitionInvalid(n, context)
                   THEN FreshLayout ELSE layouts[n]]

\* Layouts after _layoutVersion was incremented for the nodes S.  A layout that
\* is not valid never is again, and nobody looks at it.
Outgrown(layouts, S) ==
  [n \in Nodes |-> IF n \in S THEN NoLayout ELSE layouts[n]]

OutgrownTransitions(S) ==
  IF Root \in S THEN [t \in Ids |-> [transitions[t] EXCEPT !.layout = NoLayout]]
  ELSE transitions

\* Nodes whose locks a layout pass holds after it has let its own go.
LockedByMain ==
  IF main.at = "asking" THEN Path(main.node) \ {main.node} ELSE {}

\* A node is changed and invalidateCalculatedLayout is called.
Change(n) ==
  /\ n \notin LockedByMain
  /\ calculated' = Outgrown(calculated, {n})
  /\ pending' = Outgrown(pending, {n})
  /\ transitions' = OutgrownTransitions({n})
  /\ nextLayout' = IF main.at = "asking" /\ main.node = n
                   THEN NoLayout ELSE nextLayout
  /\ UNCHANGED <<supernode, transitionID, lastID, cancelled, stateVars, main,
                 canceller, missed>>

\* On main, by setNeedsLayout.
SetNeedsLayout(n) ==
  /\ main = Free
  /\ Change(n)
  /\ needsLayout' = needsLayout \cup {n}

\* On any thread, with nothing asked of CoreAnimation.
InvalidateCalculatedLayout(n) == Change(n) /\ UNCHANGED needsLayout

\* layoutThatFits: outside of any layout pass, on any thread, locked to Root.
LayoutThatFits(n) ==
  /\ LockedByMain = {}
  /\ \E M \in SUBSET (Subtree(n) \cap LaidOut) :
       /\ n \in M
       /\ pending' = Measured(pending, M, InvalidTransitionID)
  /\ UNCHANGED <<supernode, calculated, needsLayout, nextLayout, missed,
                 transitionVars, stateVars, main, canceller>>

------------------------------------------------------------------------------
(* Layout passes, on main: __layout of a node whose layer is marked. *)

\* _layoutSublayouts: new frames mark the layers of some subnodes.
LayoutSublayouts(n, marked) ==
  \E F \in SUBSET {m \in LaidOut : supernode[m] = n} :
    /\ ~calculated'[n].valid => F = {}
    /\ needsLayout' = marked \cup F

\* A node in a transition, its own or that of its root, is not measured.
SkipLayoutPass(n) ==
  /\ main = Free /\ n \in needsLayout
  /\ UNCHANGED calculated
  /\ IF n = Root
     THEN /\ transitionID # InvalidTransitionID
          /\ needsLayout' = needsLayout \ {n}
     ELSE /\ IsLayoutTransitionInvalid(n, InvalidTransitionID)
          /\ LayoutSublayouts(n, needsLayout \ {n})
  /\ UNCHANGED <<supernode, pending, nextLayout, missed, transitionVars,
                 stateVars, main, canceller>>

Measures(n) ==
  /\ main = Free /\ n \in needsLayout
  /\ n = Root => transitionID = InvalidTransitionID
  /\ ~IsLayoutTransitionInvalid(n, InvalidTransitionID)

\* The calculated layout is valid and has the right size.
ReuseLayout(n) ==
  /\ Measures(n)
  /\ calculated[n].valid
  /\ UNCHANGED calculated
  /\ LayoutSublayouts(n, needsLayout \ {n})
  /\ UNCHANGED <<supernode, pending, nextLayout, missed, transitionVars,
                 stateVars, main, canceller>>

\* The pending layout is applied if it is valid and has the right size, and
\* otherwise a new one.
ApplyLayout(n) ==
  /\ Measures(n)
  /\ \/ /\ pending[n].valid
        /\ calculated' = [calculated EXCEPT ![n] = pending[n]]
        /\ UNCHANGED pending
     \/ \E M \in SUBSET (Subnodes(n) \cap LaidOut) :
          /\ calculated' = [calculated EXCEPT ![n] = FreshLayout]
          /\ pending' = [Measured(pending, M, DefaultTransitionID)
                           EXCEPT ![n] = NoLayout]
  /\ missed' = missed \ {n}
  /\ LayoutSublayouts(n, needsLayout \ {n})
  /\ UNCHANGED <<supernode, nextLayout, transitionVars, stateVars, main,
                 canceller>>

\* The layout wants another size than the bounds have: the node lets go its
\* lock and asks its supernodes, and the topmost, for a new layout.
AskFromAbove(n) ==
  /\ Measures(n)
  /\ nextLayout' = FreshLayout
  /\ \E M \in SUBSET (Subtree(Top(n)) \cap LaidOut) :
       pending' = Measured(Outgrown(pending, Path(n)), M, InvalidTransitionID)
  /\ calculated' = Outgrown(calculated, Path(n))
  /\ transitions' = OutgrownTransitions(Path(n))
  /\ needsLayout' = (needsLayout \ {n}) \cup (Path(n) \cap LaidOut)
  /\ main' = [at |-> "asking", id |-> 0, node |-> n]
  /\ UNCHANGED <<supernode, transitionID, lastID, cancelled, stateVars,
                 canceller, missed>>

\* Locked again, the node takes the version of now for the layout of before.
ApplyAskedLayout ==
  LET n == main.node IN
  /\ main.at = "asking"
  /\ calculated' = [calculated EXCEPT
                      ![n] = [valid |-> TRUE, current |-> nextLayout.current]]
  /\ pending' = [pending EXCEPT ![n] = NoLayout]
  /\ missed' = IF nextLayout.current THEN missed \ {n} ELSE missed \cup {n}
  /\ nextLayout' = NoLayout
  /\ LayoutSublayouts(n, needsLayout)
  /\ main' = Free
  /\ UNCHANGED <<supernode, transitionVars, stateVars, canceller>>

------------------------------------------------------------------------------
(* Hierarchy state. *)

EnterLayoutPending(S, id) ==
  /\ layoutPending' = layoutPending \cup S
  /\ pendingTransitionID' = [n \in Nodes |-> IF n \in S THEN id
                                             ELSE pendingTransitionID[n]]

ExitLayoutPending(S) ==
  /\ layoutPending' = layoutPending \ S
  /\ pendingTransitionID' =
       [n \in Nodes |-> IF n \in S \cap layoutPending THEN InvalidTransitionID
                        ELSE pendingTransitionID[n]]

\* Faulty variant: the state is taken over, the id is not.
FaultyInsert(n, p) ==
  /\ main = Free
  /\ supernode[n] = NoNode /\ p \notin Subtree(n)
  /\ supernode' = [supernode EXCEPT ![n] = p]
  /\ IF p \in layoutPending THEN EnterLayoutPending(Subtree(n), InvalidTransitionID)
     ELSE UNCHANGED stateVars
  /\ UNCHANGED <<layoutVars, transitionVars, main, canceller>>

\* _setSupernode: a node that is inserted takes over the state of its
\* supernode, with all of its subtree.
Insert(n, p) ==
  /\ main = Free
  /\ supernode[n] = NoNode /\ p \notin Subtree(n)
  /\ supernode' = [supernode EXCEPT ![n] = p]
  /\ IF p \in layoutPending
     THEN EnterLayoutPending(Subtree(n), pendingTransitionID[p])
     ELSE UNCHANGED stateVars
  /\ UNCHANGED <<layoutVars, transitionVars, main, canceller>>

\* One that is removed leaves the pending state.
Remove(n) ==
  /\ main = Free
  /\ supernode[n] # NoNode
  /\ supernode' = [supernode EXCEPT ![n] = NoNode]
  /\ ExitLayoutPending(Subtree(n))
  /\ UNCHANGED <<layoutVars, transitionVars, main, canceller>>

------------------------------------------------------------------------------
(* Layout transitions of Root. *)

SetTransition(t, at) == transitions' = [transitions EXCEPT ![t].at = at]

\* There is nothing left of transition t.
End(t) ==
  /\ transitions' = [transitions EXCEPT ![t] = Ended]
  /\ cancelled' = cancelled \ {t}

\* A block of t that finds it superseded returns.  If main had measured on the
\* spot, it is free again.
Return(t) ==
  /\ End(t)
  /\ main' = IF main.id = t THEN Free ELSE main

IsCancelled(t) == transitionID # t

\* Root is invalidated before the transition t has its id.
StartedTransitions(t) ==
  [OutgrownTransitions({Root}) EXCEPT ![t] = [at |-> "started", layout |-> NoLayout]]

\* transitionLayoutWithSizeRange:, up to the marking.  The block runs on
\* another thread or, measuring on the spot, on main.
StartTransition(onTheSpot) ==
  /\ main = Free
  /\ lastID < MaxTransitions /\ lastID' = lastID + 1
  /\ transitionID' = lastID'
  /\ transitions' = StartedTransitions(lastID')
  /\ calculated' = Outgrown(calculated, {Root})
  /\ pending' = Outgrown(pending, {Root})
  /\ main' = [at |-> IF onTheSpot THEN "mark and measure" ELSE "mark",
              id |-> lastID', node |-> NoNode]
  /\ UNCHANGED <<supernode, needsLayout, nextLayout, missed, cancelled,
                 stateVars, canceller>>

\* The subnodes are marked, and the block begins.
MarkSubnodes ==
  /\ main.at \in {"mark", "mark and measure"}
  /\ EnterLayoutPending(Subnodes(Root), main.id)
  /\ SetTransition(main.id, "block")
  /\ main' = IF main.at = "mark" THEN Free ELSE [main EXCEPT !.at = "measuring"]
  /\ UNCHANGED <<supernode, layoutVars, transitionID, lastID, cancelled,
                 canceller>>

\* The block: is it cancelled?  _layoutVersion is read before measuring.
BeginMeasuring(t) ==
  /\ transitions[t].at = "block"
  /\ IF IsCancelled(t) THEN Return(t)
     ELSE /\ transitions' = [transitions EXCEPT
               ![t] = [at |-> "measure", layout |-> [NoLayout EXCEPT !.valid = TRUE]]]
          /\ UNCHANGED <<main, cancelled>>
  /\ UNCHANGED <<supernode, layoutVars, transitionID, lastID, stateVars,
                 canceller>>

\* It measures Root, with a context of its own, locked to the root.  If it is
\* not cancelled by then, it submits a block to main.
Measure(t) ==
  /\ transitions[t].at = "measure"
  /\ LockedByMain = {}
  /\ \E M \in SUBSET (Subnodes(Root) \cap LaidOut) : pending' = Measured(pending, M, t)
  /\ IF IsCancelled(t) THEN Return(t)
     ELSE /\ transitions' = [transitions EXCEPT
               ![t] = [at |-> "submitted",
                       layout |-> IF @.layout.valid THEN FreshLayout ELSE NoLayout]]
          /\ UNCHANGED <<main, cancelled>>
  /\ UNCHANGED <<supernode, calculated, needsLayout, nextLayout, missed,
                 transitionID, lastID, stateVars, canceller>>

\* Main is free, or has measured t on the spot.
MainIsFreeFor(t) == main = Free \/ (main.at = "measuring" /\ main.id = t)

\* Faulty variant: main does not look at the id once more.
FaultyBeginCommit(t) ==
  /\ transitions[t].at = "submitted"
  /\ MainIsFreeFor(t)
  /\ main' = [at |-> "commit", id |-> t, node |-> NoNode]
  /\ UNCHANGED <<supernode, layoutVars, transitionVars, stateVars, canceller>>

\* The block on main looks whether it is cancelled, without a lock.
BeginCommit(t) ==
  /\ transitions[t].at = "submitted"
  /\ MainIsFreeFor(t)
  /\ IF IsCancelled(t) THEN End(t) /\ main' = Free
     ELSE /\ main' = [at |-> "commit", id |-> t, node |-> NoNode]
          /\ UNCHANGED <<transitions, cancelled>>
  /\ UNCHANGED <<supernode, layoutVars, transitionID, lastID, stateVars,
                 canceller>>

MainGoesOn(at) == main' = [main EXCEPT !.at = at]

\* Faulty variant: the layout takes the version of now.
FaultyCommitLayout ==
  /\ main.at = "commit"
  /\ calculated' = [calculated EXCEPT ![Root] =
                      [transitions[main.id].layout EXCEPT !.valid = TRUE]]
  /\ missed' = missed \ {Root}
  /\ MainGoesOn("committed")
  /\ UNCHANGED <<supernode, pending, needsLayout, nextLayout, transitionVars,
                 stateVars, canceller>>

\* With the lock of Root, the new layout becomes the calculated one.
CommitLayout ==
  /\ main.at = "commit"
  /\ calculated' = [calculated EXCEPT ![Root] = transitions[main.id].layout]
  /\ missed' = missed \ {Root}
  /\ MainGoesOn("committed")
  /\ UNCHANGED <<supernode, pending, needsLayout, nextLayout, transitionVars,
                 stateVars, canceller>>

\* The subnodes leave the pending state.  Layout passes being on main, none of
\* them has a layout transition that waits for this.
CompleteSubnodes ==
  /\ main.at = "committed"
  /\ ExitLayoutPending(Subnodes(Root))
  /\ MainGoesOn("completion")
  /\ UNCHANGED <<supernode, layoutVars, transitionVars, canceller>>

\* The completion block, which may call back, animateLayoutTransition:, and the
\* transition is marked as finished.
Finish(call) ==
  /\ main.at = "completion"
  /\ main' = Free
  /\ transitionID' = InvalidTransitionID
  /\ CASE call = "nothing" ->
            /\ End(main.id)
            /\ UNCHANGED <<calculated, pending, lastID, stateVars>>
       [] call = "transition" ->
            /\ lastID < MaxTransitions /\ lastID' = lastID + 1
            /\ transitions' = [StartedTransitions(lastID') EXCEPT
                                 ![lastID'].at = "block", ![main.id] = Ended]
            /\ calculated' = Outgrown(calculated, {Root})
            /\ pending' = Outgrown(pending, {Root})
            /\ EnterLayoutPending(Subnodes(Root), lastID')
            /\ UNCHANGED cancelled
  /\ LayoutSublayouts(Root, needsLayout)
  /\ UNCHANGED <<supernode, nextLayout, missed, canceller>>

\* cancelLayoutTransition: the id is exchanged first.
CancelLayoutTransition(thread) ==
  /\ transitionID # InvalidTransitionID
  /\ transitionID' = InvalidTransitionID
  /\ cancelled' = cancelled \cup {transitionID}
  /\ IF thread = "main"
     THEN main = Free /\ MainGoesOn("cancel") /\ UNCHANGED canceller
     ELSE canceller = "idle" /\ canceller' = "cancel" /\ UNCHANGED main
  /\ UNCHANGED <<supernode, layoutVars, lastID, transitions, stateVars>>

\* Faulty variant: only the immediate subnodes are told.
FaultyUnmarkSubnodes(thread) ==
  /\ ExitLayoutPending({n \in Nodes : supernode[n] = Root})
  /\ IF thread = "main"
     THEN main.at = "cancel" /\ main' = Free /\ UNCHANGED canceller
     ELSE canceller = "cancel" /\ canceller' = "idle" /\ UNCHANGED main
  /\ UNCHANGED <<supernode, layoutVars, transitionVars>>

\* Then the subnodes are told to leave the pending state.
UnmarkSubnodes(thread) ==
  /\ ExitLayoutPending(Subnodes(Root))
  /\ IF thread = "main"
     THEN main.at = "cancel" /\ main' = Free /\ UNCHANGED canceller
     ELSE canceller = "cancel" /\ canceller' = "idle" /\ UNCHANGED main
  /\ UNCHANGED <<supernode, layoutVars, transitionVars>>

------------------------------------------------------------------------------
\* What goes on by itself once it has begun.
Continue ==
  \/ ApplyAskedLayout
  \/ MarkSubnodes
  \/ CommitLayout
  \/ CompleteSubnodes
  \/ \E call \in CompletionCalls : Finish(call)

TransitionBlock(t) == BeginMeasuring(t) \/ Measure(t)

Client ==
  \/ \E n \in LaidOut :
       SetNeedsLayout(n) \/ InvalidateCalculatedLayout(n) \/ LayoutThatFits(n)
  \/ \E n \in Moved :
       \/ Remove(n)
       \/ \E p \in Nodes : Insert(n, p)
  \/ \E onTheSpot \in BOOLEAN : StartTransition(onTheSpot)
  \/ \E thread \in Cancellers : CancelLayoutTransition(thread)

LayoutPass ==
  \E n \in LaidOut :
    SkipLayoutPass(n) \/ ReuseLayout(n) \/ ApplyLayout(n) \/ AskFromAbove(n)

Next ==
  \/ Client
  \/ LayoutPass
  \/ Continue
  \/ \E t \in Ids : TransitionBlock(t) \/ BeginCommit(t)
  \/ \E thread \in Cancellers : UnmarkSubnodes(thread)

Spec == Init /\ [][Next]_vars

\* Threads go on with what they have begun.  Main comes to the blocks of its
\* queue, and a worker to the lock of the root, although layout passes that are
\* asked for again and again use both: the run loop turns between them.
FairSpec ==
  /\ Spec
  /\ WF_vars(Continue)
  /\ \A thread \in Cancellers : WF_vars(UnmarkSubnodes(thread))
  /\ \A t \in Ids : SF_vars(TransitionBlock(t)) /\ SF_vars(BeginCommit(t))

------------------------------------------------------------------------------
(* Properties. *)

\* A subnode that nobody may lay out belongs to the transition that will let it
\* go: whatever is inserted, removed, cancelled and started, once the subnodes
\* were told, the id of a node in LayoutPending is that of the transition under
\* way.
NoStuckPending ==
  main.at \notin {"mark", "mark and measure", "cancel"} /\ canceller = "idle" =>
    \A n \in layoutPending :
      /\ pendingTransitionID[n] = transitionID
      /\ transitionID # InvalidTransitionID

\* The layout of a transition becomes the node's only if no other transition
\* was started after it, and it was not cancelled: what was measured for a
\* superseded one, and perhaps submitted to main, is dropped.
LastTransitionWins ==
  [][CommitLayout => main.id = lastID /\ main.id \notin cancelled]_vars

\* A layout that counts as valid was measured after the last change of its
\* node, although the version that it carries is read at another time than the
\* node is measured; but a change while a layout pass asks for another size,
\* and has let go its lock, is missed.
ValidLayoutsAreCurrent ==
  \A n \in Nodes :
    /\ pending[n].valid => pending[n].current
    /\ calculated[n].valid => calculated[n].current \/ n \in missed

\* Every transition ends, and the subnodes may be laid out again.
TransitionsEnd ==
  transitionID # InvalidTransitionID \/ layoutPending # {} ~>
    transitionID = InvalidTransitionID /\ layoutPending = {}
=============================================================================
