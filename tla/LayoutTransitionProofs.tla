------------------------ MODULE LayoutTransitionProofs ------------------------
(* Proofs about layout transitions, for any tree and any number of them.     *)
(* Which transition wins, and which nodes stay pending, assumes that         *)
(* cancelLayoutTransition is called on main only.                            *)
EXTENDS LayoutTransition, TLAPS

Doing == {"free", "asking", "mark", "mark and measure", "measuring", "commit",
          "committed", "completion", "cancel"}
Main  == [at: Doing, id: Nat, node: Nodes \cup {NoNode}]

\* The id of Root is that of the last transition or none, a transition that was
\* cancelled is not under way, and what main is about to commit is.
IInv ==
  /\ main \in Main
  /\ lastID \in Nat
  /\ transitionID \in {InvalidTransitionID, lastID}
  /\ cancelled \subseteq 1..lastID
  /\ transitionID \notin cancelled
  /\ main.at = "commit" =>
       main.id = transitionID /\ transitionID # InvalidTransitionID

LEMMA FreeIsMain == Free \in Main /\ Free.at # "commit"
  BY DEF Free, Main, Doing

LEMMA InitIInv == Init => IInv
  BY DEF Init, IInv, Main, Doing, Free, InvalidTransitionID

\* The steps that leave alone all that the invariant is about.
LEMMA Frame ==
  ASSUME IInv,
         UNCHANGED <<transitionID, lastID>>,
         cancelled' \subseteq cancelled,
         main' \in Main,
         main'.at = "commit" => main' = main
  PROVE  IInv'
  BY DEF IInv

\* A new transition, started while main commits nothing.
LEMMA Started ==
  ASSUME IInv,
         lastID' = lastID + 1,
         cancelled' = cancelled,
         \/ transitionID' = lastID'
         \/ transitionID' = InvalidTransitionID,
         main' \in Main,
         main'.at # "commit"
  PROVE  IInv'
  BY DEF IInv, InvalidTransitionID

\* Inductive step: one case for each action that touches the ids.
LEMMA NextIInv ==
  ASSUME "background" \notin Cancellers, IInv, [Next]_vars
  PROVE  IInv'
<1> USE DEF IInv
<1>1. CASE UNCHANGED vars
  BY <1>1, Frame DEF vars, transitionVars
<1>2. CASE Client
  <2>1. ASSUME NEW n \in LaidOut,
               SetNeedsLayout(n) \/ InvalidateCalculatedLayout(n) \/ LayoutThatFits(n)
        PROVE  IInv'
    BY <2>1, Frame DEF SetNeedsLayout, InvalidateCalculatedLayout, Change,
                       LayoutThatFits, transitionVars
  <2>2. ASSUME NEW n \in Moved,
               Remove(n) \/ \E p \in Nodes : Insert(n, p)
        PROVE  IInv'
    BY <2>2, Frame DEF Remove, Insert, transitionVars
  <2>3. ASSUME NEW onTheSpot \in BOOLEAN, StartTransition(onTheSpot)
        PROVE  IInv'
    <3>1. lastID' = lastID + 1
      BY <2>3, Zenon DEF StartTransition
    <3>2. lastID' \in Nat /\ NoNode \in Nodes \cup {NoNode}
      BY <3>1
    <3>3. PICK at \in {"mark", "mark and measure"} :
            main' = [at |-> at, id |-> lastID', node |-> NoNode]
      <4> DEFINE begins == IF onTheSpot THEN "mark and measure" ELSE "mark"
      <4>1. main' = [at |-> begins, id |-> lastID', node |-> NoNode]
        BY <2>3, Zenon DEF StartTransition
      <4>2. begins \in {"mark", "mark and measure"}
        OBVIOUS
      <4> HIDE DEF begins
      <4>3. QED
        BY <4>1, <4>2
    <3>4. main' \in Main /\ main'.at # "commit"
      <4>1. at \in Doing /\ at # "commit"
        BY <3>3 DEF Doing
      <4>2. QED
        BY <3>3, <3>2, <4>1, Zenon DEF Main
    <3>5. QED
      <4>1. transitionID' = lastID' /\ UNCHANGED cancelled
        BY <2>3, Zenon DEF StartTransition
      <4>2. QED
        BY <3>1, <3>4, <4>1, Started
  <2>4. ASSUME NEW thread \in Cancellers, CancelLayoutTransition(thread)
        PROVE  IInv'
    <3>1. thread = "main"
      BY LayoutTransitionAssumption DEF LayoutTransitionAssumption
    <3>2. main' \in Main /\ main'.at = "cancel"
      BY <2>4, <3>1 DEF CancelLayoutTransition, MainGoesOn, Free, Main, Doing
    <3>3. QED
      BY <2>4, <3>2 DEF CancelLayoutTransition, InvalidTransitionID
  <2>5. QED
    BY <1>2, <2>1, <2>2, <2>3, <2>4 DEF Client
<1>3. CASE LayoutPass
  <2>1. PICK n \in LaidOut :
          SkipLayoutPass(n) \/ ReuseLayout(n) \/ ApplyLayout(n) \/ AskFromAbove(n)
    BY <1>3 DEF LayoutPass
  <2>2. CASE SkipLayoutPass(n) \/ ReuseLayout(n) \/ ApplyLayout(n)
    BY <2>2, Frame DEF SkipLayoutPass, ReuseLayout, ApplyLayout, transitionVars
  <2>3. CASE AskFromAbove(n)
    <3>1. main' \in Main /\ main'.at # "commit"
      BY <2>3, LayoutTransitionAssumption
      DEF AskFromAbove, Main, Doing, LayoutTransitionAssumption
    <3>2. QED
      BY <2>3, <3>1, Frame DEF AskFromAbove
  <2>4. QED
    BY <2>1, <2>2, <2>3
<1>4. CASE Continue
  <2>1. CASE ApplyAskedLayout
    <3>1. main' \in Main /\ main'.at # "commit"
      BY <2>1 DEF ApplyAskedLayout, Main, Doing, Free
    <3>2. QED
      BY <2>1, <3>1, Frame DEF ApplyAskedLayout, transitionVars
  <2>2. CASE MarkSubnodes
    <3>1. main' \in Main /\ main'.at # "commit"
      BY <2>2 DEF MarkSubnodes, Main, Doing, Free
    <3>2. QED
      BY <2>2, <3>1, Frame DEF MarkSubnodes
  <2>3. CASE CommitLayout \/ CompleteSubnodes
    <3>1. main' \in Main /\ main'.at # "commit"
      BY <2>3 DEF CommitLayout, CompleteSubnodes, MainGoesOn, Main, Doing
    <3>2. QED
      BY <2>3, <3>1, Frame DEF CommitLayout, CompleteSubnodes, transitionVars
  <2>4. ASSUME NEW call \in CompletionCalls, Finish(call)
        PROVE  IInv'
    <3>1. /\ main' \in Main /\ main'.at # "commit"
          /\ transitionID' = InvalidTransitionID
      BY <2>4 DEF Finish, Free, Main, Doing
    <3>2. CASE call = "nothing"
      BY <2>4, <3>1, <3>2 DEF Finish, End, InvalidTransitionID
    <3>3. CASE call = "transition"
      BY <2>4, <3>1, <3>3, Started DEF Finish
    <3>4. QED
      BY <3>2, <3>3, LayoutTransitionAssumption DEF LayoutTransitionAssumption
  <2>5. QED
    BY <1>4, <2>1, <2>2, <2>3, <2>4 DEF Continue
<1>5. ASSUME NEW t \in Ids, TransitionBlock(t) \/ BeginCommit(t)
      PROVE  IInv'
  <2>1. t \in Nat /\ t # InvalidTransitionID
    BY LayoutTransitionAssumption
    DEF Ids, InvalidTransitionID, LayoutTransitionAssumption
  <2>2. CASE IsCancelled(t)
    <3>1. cancelled' \subseteq cancelled /\ UNCHANGED <<transitionID, lastID>>
      BY <1>5, <2>2 DEF TransitionBlock, BeginMeasuring, Measure, BeginCommit,
                        Return, End
    <3>2. main' = main \/ main' = Free
      BY <1>5, <2>2 DEF TransitionBlock, BeginMeasuring, Measure, BeginCommit,
                        Return
    <3>3. QED
      BY <3>1, <3>2, Frame, FreeIsMain
  <2>3. CASE ~IsCancelled(t) /\ TransitionBlock(t)
    BY <2>3, Frame DEF TransitionBlock, BeginMeasuring, Measure
  <2>4. CASE ~IsCancelled(t) /\ BeginCommit(t)
    <3>1. main' = [at |-> "commit", id |-> t, node |-> NoNode]
      BY <2>4 DEF BeginCommit
    <3>2. main' \in Main /\ main'.id = t
      BY <2>1, <3>1 DEF Main, Doing
    <3>3. transitionID = t /\ UNCHANGED <<transitionID, lastID, cancelled>>
      BY <2>4 DEF BeginCommit, IsCancelled
    <3>4. QED
      BY <2>1, <3>2, <3>3
  <2>5. QED
    BY <1>5, <2>2, <2>3, <2>4
<1>6. ASSUME NEW thread \in Cancellers, UnmarkSubnodes(thread)
      PROVE  IInv'
  <2>1. main' = main \/ main' = Free
    BY <1>6 DEF UnmarkSubnodes
  <2>2. main' \in Main /\ (main'.at = "commit" => main' = main)
    BY <2>1, FreeIsMain
  <2>3. QED
    BY <1>6, <2>2, Frame DEF UnmarkSubnodes, transitionVars
<1>7. QED
  BY <1>1, <1>2, <1>3, <1>4, <1>5, <1>6 DEF Next

\* The invariant holds throughout, if nobody cancels in the background.
THEOREM Invariance ==
  ASSUME "background" \notin Cancellers
  PROVE  Spec => []IInv
<1>1. IInv /\ [Next]_vars => IInv'
  BY NextIInv
<1>2. QED
  BY InitIInv, <1>1, PTL DEF Spec

\* Whatever is started, cancelled and measured in whatever order, on main and
\* in the background, only the last transition, and only if it was not
\* cancelled, sets the calculated layout.
THEOREM LastTransitionAlwaysWins ==
  ASSUME "background" \notin Cancellers
  PROVE  Spec => LastTransitionWins
<1>1. IInv => [CommitLayout => main.id = lastID /\ main.id \notin cancelled]_vars
  BY DEF IInv, CommitLayout
<1>2. QED
  BY Invariance, <1>1, PTL DEF LastTransitionWins

-----------------------------------------------------------------------------
(* Layouts and their versions, whoever cancels and whatever completion blocks *)
(* call.                                                                      *)

Layout     == [valid: BOOLEAN, current: BOOLEAN]
Transition == [at: {"started", "block", "measure", "submitted", "ended"},
               layout: Layout]

IsSound(layout) == layout.valid => layout.current

\* The layout of a transition has an old version only while it is measured; main
\* looks at it before that, or when it is over.
TransitionsOK ==
  /\ transitions \in [Ids -> Transition] /\ lastID \in Nat /\ main \in Main
  /\ \A t \in Ids : IsSound(transitions[t].layout) \/ transitions[t].at = "measure"
  /\ main.at \in {"mark", "mark and measure"} =>
       main.id \in Ids /\ transitions[main.id].at = "started"
  /\ main.at = "commit" =>
       main.id \in Ids /\ transitions[main.id].at = "submitted"

LayoutsOK ==
  /\ calculated \in [Nodes -> Layout] /\ pending \in [Nodes -> Layout]
  /\ nextLayout \in Layout
  /\ ValidLayoutsAreCurrent

LEMMA LayoutTypes ==
  /\ NoLayout \in Layout /\ ~NoLayout.valid /\ IsSound(NoLayout)
  /\ FreshLayout \in Layout /\ FreshLayout.current /\ IsSound(FreshLayout)
  /\ Ended \in Transition /\ Ended.layout = NoLayout
  BY DEF NoLayout, FreshLayout, Layout, Ended, Transition, IsSound

LEMMA InitTransitionsOK == Init => TransitionsOK
<1>1. Init => main = Free /\ lastID = 0 /\ transitions = [t \in Ids |-> Ended]
  BY DEF Init
<1>2. Free.at = "free"
  BY DEF Free
<1>3. Init => \A t \in Ids : IsSound(transitions[t].layout)
  BY <1>1, LayoutTypes
<1>4. Init => transitions \in [Ids -> Transition]
  BY <1>1, LayoutTypes
<1>5. QED
  <2> SUFFICES ASSUME Init PROVE TransitionsOK
    OBVIOUS
  <2>1. main = Free /\ lastID \in Nat
    BY <1>1
  <2>2. main.at = "free" /\ main \in Main
    BY <1>2, <2>1, FreeIsMain
  <2>3. QED
    BY <1>3, <1>4, <2>1, <2>2 DEF TransitionsOK

LEMMA InitLayoutsOK == Init => LayoutsOK
  BY LayoutTypes DEF Init, LayoutsOK, ValidLayoutsAreCurrent

\* What is outgrown counts no more; what is measured counts and is current.
LEMMA OutgrownLayouts ==
  ASSUME NEW layouts \in [Nodes -> Layout], NEW S
  PROVE  /\ Outgrown(layouts, S) \in [Nodes -> Layout]
         /\ \A n \in Nodes : \/ Outgrown(layouts, S)[n] = layouts[n]
                             \/ ~Outgrown(layouts, S)[n].valid
  BY LayoutTypes DEF Outgrown

LEMMA MeasuredLayouts ==
  ASSUME NEW layouts \in [Nodes -> Layout], NEW M, NEW context
  PROVE  /\ Measured(layouts, M, context) \in [Nodes -> Layout]
         /\ \A n \in Nodes : \/ Measured(layouts, M, context)[n] = layouts[n]
                             \/ Measured(layouts, M, context)[n].current
  BY LayoutTypes DEF Measured

LEMMA OutgrownTransitionLayouts ==
  ASSUME transitions \in [Ids -> Transition], NEW S
  PROVE  /\ OutgrownTransitions(S) \in [Ids -> Transition]
         /\ \A t \in Ids :
              /\ OutgrownTransitions(S)[t].at = transitions[t].at
              /\ \/ OutgrownTransitions(S)[t].layout = transitions[t].layout
                 \/ OutgrownTransitions(S)[t].layout = NoLayout
<1>1. \A t \in Ids : /\ [transitions[t] EXCEPT !.layout = NoLayout] \in Transition
                     /\ [transitions[t] EXCEPT !.layout = NoLayout].at = transitions[t].at
                     /\ [transitions[t] EXCEPT !.layout = NoLayout].layout = NoLayout
  BY LayoutTypes DEF Transition
<1>2. QED
  BY <1>1 DEF OutgrownTransitions

\* What main does when it is not to look at the layout of any transition.
Elsewhere == Doing \ {"mark", "mark and measure", "commit"}

LEMMA FreeIsElsewhere == Free \in Main /\ Free.at \in Elsewhere
  BY DEF Free, Main, Doing, Elsewhere

\* Main goes on, or asks for another size.
LEMMA MainElsewhere ==
  ASSUME main \in Main, NEW at \in Elsewhere, NEW n \in Nodes
  PROVE  /\ [main EXCEPT !.at = at] \in Main
         /\ [main EXCEPT !.at = at].at \in Elsewhere
         /\ [at |-> "asking", id |-> 0, node |-> n] \in Main
         /\ [at |-> "asking", id |-> 0, node |-> n].at \in Elsewhere
  BY DEF Main, Doing, Elsewhere

\* Steps that take no transition further, and leave main alone or elsewhere.
LEMMA TransitionsFrame ==
  ASSUME TransitionsOK, lastID' = lastID,
         transitions' = transitions \/ \E S : transitions' = OutgrownTransitions(S),
         main' = main \/ (main' \in Main /\ main'.at \in Elsewhere)
  PROVE  TransitionsOK'
<1>1. /\ transitions' \in [Ids -> Transition]
      /\ \A t \in Ids :
           /\ transitions'[t].at = transitions[t].at
           /\ \/ transitions'[t].layout = transitions[t].layout
              \/ transitions'[t].layout = NoLayout
  <2>1. transitions \in [Ids -> Transition]
    BY DEF TransitionsOK
  <2>2. CASE transitions' = transitions
    BY <2>1, <2>2
  <2>3. CASE \E S : transitions' = OutgrownTransitions(S)
    <3>1. PICK S : transitions' = OutgrownTransitions(S)
      BY <2>3
    <3>2. QED
      BY <2>1, <3>1, OutgrownTransitionLayouts
  <2>4. QED
    BY <2>2, <2>3
<1>2. main' \in Main
  BY DEF TransitionsOK
<1>3. \A t \in Ids : \/ IsSound(transitions'[t].layout)
                     \/ transitions'[t].at = "measure"
  BY <1>1, LayoutTypes DEF TransitionsOK
<1>4. QED
  BY <1>1, <1>2, <1>3 DEF TransitionsOK, Elsewhere

\* Steps that take one transition further.
LEMMA TransitionGoesOn ==
  ASSUME TransitionsOK, lastID' = lastID, NEW t, NEW tr \in Transition,
         transitions' = [transitions EXCEPT ![t] = tr],
         IsSound(tr.layout) \/ tr.at = "measure",
         \/ main' = main /\ transitions[t].at \notin {"started", "submitted"}
         \/ main' \in Main /\ main'.at \in Elsewhere
  PROVE  TransitionsOK'
  BY DEF TransitionsOK, Elsewhere

\* A transition that begins.
LEMMA TransitionStarts ==
  ASSUME TransitionsOK, lastID < MaxTransitions, NEW id, id = lastID + 1
  PROVE  /\ id \in Ids /\ id \in Nat
         /\ StartedTransitions(id) \in [Ids -> Transition]
         /\ \A t \in Ids : \/ IsSound(StartedTransitions(id)[t].layout)
                           \/ StartedTransitions(id)[t].at = "measure"
         /\ StartedTransitions(id)[id].at = "started"
         /\ StartedTransitions(id)[id].layout = NoLayout
<1>1. id \in Ids /\ id \in Nat
  <2>1. MaxTransitions \in Nat
    BY LayoutTransitionAssumption, Zenon DEF LayoutTransitionAssumption
  <2>2. lastID \in Nat
    BY DEF TransitionsOK
  <2>3. QED
    BY <2>1, <2>2 DEF Ids
<1>2. [at |-> "started", layout |-> NoLayout] \in Transition
  BY LayoutTypes DEF Transition
<1>3. \A t \in Ids : \/ IsSound(OutgrownTransitions({Root})[t].layout)
                     \/ OutgrownTransitions({Root})[t].at = "measure"
  BY OutgrownTransitionLayouts, LayoutTypes DEF TransitionsOK
<1>4. OutgrownTransitions({Root}) \in [Ids -> Transition]
  BY OutgrownTransitionLayouts DEF TransitionsOK
<1>5. QED
  BY <1>1, <1>2, <1>3, <1>4, LayoutTypes DEF StartedTransitions

LEMMA BlockTransitionsOK ==
  ASSUME TransitionsOK, NEW t \in Ids, TransitionBlock(t) \/ BeginCommit(t)
  PROVE  TransitionsOK'
<1>1. lastID' = lastID
  BY DEF TransitionBlock, BeginMeasuring, Measure, BeginCommit
<1>2. transitions[t] \in Transition
  BY DEF TransitionsOK
<1>3. CASE End(t) /\ (main' = Free \/ (main' = main /\ TransitionBlock(t)))
  <2>1. transitions' = [transitions EXCEPT ![t] = Ended]
    BY <1>3, Zenon DEF End
  <2>2. \/ main' = main /\ transitions[t].at \notin {"started", "submitted"}
        \/ main' = Free
    BY <1>3 DEF TransitionBlock, BeginMeasuring, Measure
  <2>3. Ended \in Transition /\ IsSound(Ended.layout)
    BY LayoutTypes
  <2>4. QED
    BY <1>1, <2>1, <2>2, <2>3, FreeIsElsewhere, TransitionGoesOn
<1>4. CASE BeginMeasuring(t) /\ ~IsCancelled(t)
  <2> DEFINE tr == [at |-> "measure", layout |-> [NoLayout EXCEPT !.valid = TRUE]]
  <2>1. tr \in Transition /\ tr.at = "measure"
    BY DEF Transition, Layout, NoLayout
  <2>2. /\ transitions' = [transitions EXCEPT ![t] = tr]
        /\ main' = main /\ transitions[t].at = "block"
    BY <1>4 DEF BeginMeasuring
  <2> HIDE DEF tr
  <2>3. QED
    BY <1>1, <2>1, <2>2, TransitionGoesOn
<1>5. CASE Measure(t) /\ ~IsCancelled(t)
  <2>1. PICK layout \in {FreshLayout, NoLayout} :
          transitions' = [transitions EXCEPT
                            ![t] = [at |-> "submitted", layout |-> layout]]
    <3>1. transitions' = [transitions EXCEPT
                            ![t] = [at |-> "submitted",
                                    layout |-> IF @.layout.valid THEN FreshLayout
                                               ELSE NoLayout]]
      BY <1>5, Zenon DEF Measure
    <3>2. CASE transitions[t].layout.valid
      BY <3>1, <3>2
    <3>3. CASE ~transitions[t].layout.valid
      BY <3>1, <3>3
    <3>4. QED
      BY <3>2, <3>3
  <2>2. [at |-> "submitted", layout |-> layout] \in Transition
    BY LayoutTypes DEF Transition
  <2>3. main' = main /\ transitions[t].at = "measure"
    BY <1>5 DEF Measure
  <2>4. QED
    BY <1>1, <2>1, <2>2, <2>3, LayoutTypes, TransitionGoesOn
<1>6. CASE BeginCommit(t) /\ ~IsCancelled(t)
  <2>1. /\ main' = [at |-> "commit", id |-> t, node |-> NoNode]
        /\ UNCHANGED transitions /\ transitions[t].at = "submitted"
    BY <1>6, Zenon DEF BeginCommit
  <2>2. t \in Nat
    BY DEF Ids
  <2>3. main' \in Main /\ main'.at = "commit" /\ main'.id = t
    BY <2>1, <2>2 DEF Main, Doing
  <2>4. QED
    BY <1>1, <2>1, <2>3 DEF TransitionsOK
<1>7. \/ End(t) /\ (main' = Free \/ (main' = main /\ TransitionBlock(t)))
      \/ ~IsCancelled(t)
  <2>1. CASE IsCancelled(t) /\ TransitionBlock(t)
    <3>1. Return(t)
      BY <2>1, Zenon DEF TransitionBlock, BeginMeasuring, Measure
    <3>2. QED
      BY <2>1, <3>1 DEF Return
  <2>2. CASE IsCancelled(t) /\ BeginCommit(t)
    <3>1. End(t) /\ main' = Free
      BY <2>2, Zenon DEF BeginCommit
    <3>2. QED
      BY <3>1, Zenon
  <2>3. QED
    BY <2>1, <2>2
<1>8. QED
  BY <1>3, <1>4, <1>5, <1>6, <1>7 DEF TransitionBlock

LEMMA NextTransitionsOK == TransitionsOK /\ [Next]_vars => TransitionsOK'
<1> SUFFICES ASSUME TransitionsOK, [Next]_vars PROVE TransitionsOK'
  OBVIOUS
<1>main. main \in Main
  BY DEF TransitionsOK
<1>1. CASE UNCHANGED vars
  BY <1>1, TransitionsFrame DEF vars, transitionVars
<1>2. CASE Client
  <2>1. ASSUME NEW n \in LaidOut,
               SetNeedsLayout(n) \/ InvalidateCalculatedLayout(n) \/ LayoutThatFits(n)
        PROVE  TransitionsOK'
    BY <2>1, TransitionsFrame DEF SetNeedsLayout, InvalidateCalculatedLayout, Change,
                                  LayoutThatFits, transitionVars
  <2>2. ASSUME NEW n \in Moved,
               Remove(n) \/ \E p \in Nodes : Insert(n, p)
        PROVE  TransitionsOK'
    BY <2>2, TransitionsFrame DEF Remove, Insert, transitionVars
  <2>3. ASSUME NEW onTheSpot \in BOOLEAN, StartTransition(onTheSpot)
        PROVE  TransitionsOK'
    <3>1. PICK id : /\ id = lastID + 1 /\ id = lastID' /\ lastID < MaxTransitions
                    /\ transitions' = StartedTransitions(id)
      BY <2>3, Zenon DEF StartTransition
    <3>2. PICK at \in {"mark", "mark and measure"} :
            main' = [at |-> at, id |-> id, node |-> NoNode]
      BY <2>3, <3>1, Zenon DEF StartTransition
    <3>3. at \in Doing /\ at # "commit"
      BY <3>2 DEF Doing
    <3>4. main' \in Main /\ main'.id = id /\ main'.at # "commit"
      BY <3>1, <3>2, <3>3, TransitionStarts, Zenon DEF Main
    <3>5. /\ lastID' \in Nat /\ transitions' \in [Ids -> Transition]
          /\ \A t \in Ids : \/ IsSound(transitions'[t].layout)
                            \/ transitions'[t].at = "measure"
      BY <3>1, TransitionStarts
    <3>6. main'.id \in Ids /\ transitions'[main'.id].at = "started"
      BY <3>1, <3>4, TransitionStarts, Zenon
    <3>7. QED
      BY <3>4, <3>5, <3>6 DEF TransitionsOK
  <2>4. ASSUME NEW thread \in Cancellers, CancelLayoutTransition(thread)
        PROVE  TransitionsOK'
    <3>1. main' = main \/ main' = [main EXCEPT !.at = "cancel"]
      BY <2>4, Zenon DEF CancelLayoutTransition, MainGoesOn
    <3>2. main' = main \/ (main' \in Main /\ main'.at \in Elsewhere)
      BY <1>main, <3>1 DEF Main, Doing, Elsewhere
    <3>3. QED
      BY <2>4, <3>2, TransitionsFrame DEF CancelLayoutTransition
  <2>5. QED
    BY <1>2, <2>1, <2>2, <2>3, <2>4 DEF Client
<1>3. CASE LayoutPass
  <2>1. PICK n \in LaidOut :
          SkipLayoutPass(n) \/ ReuseLayout(n) \/ ApplyLayout(n) \/ AskFromAbove(n)
    BY <1>3, Zenon DEF LayoutPass
  <2>2. CASE SkipLayoutPass(n) \/ ReuseLayout(n) \/ ApplyLayout(n)
    BY <2>2, TransitionsFrame DEF SkipLayoutPass, ReuseLayout, ApplyLayout,
                                  transitionVars
  <2>3. CASE AskFromAbove(n)
    <3>1. n \in Nodes
      BY LayoutTransitionAssumption, Zenon DEF LayoutTransitionAssumption
    <3>2. main' = [at |-> "asking", id |-> 0, node |-> n]
      BY <2>3, Zenon DEF AskFromAbove
    <3>3. main' \in Main /\ main'.at \in Elsewhere
      BY <3>1, <3>2 DEF Main, Doing, Elsewhere
    <3>4. QED
      BY <2>3, <3>3, TransitionsFrame DEF AskFromAbove
  <2>4. QED
    BY <2>1, <2>2, <2>3
<1>4. CASE Continue
  <2>1. CASE ApplyAskedLayout
    BY <2>1, TransitionsFrame, FreeIsElsewhere DEF ApplyAskedLayout, transitionVars
  <2>2. CASE MarkSubnodes
    <3>1. main.id \in Ids /\ transitions[main.id] \in Transition
      BY <2>2 DEF MarkSubnodes, TransitionsOK
    <3> DEFINE tr == [transitions[main.id] EXCEPT !.at = "block"]
    <3>2. tr \in Transition /\ tr.layout = transitions[main.id].layout
      BY <3>1 DEF Transition
    <3>3. IsSound(tr.layout)
      BY <2>2, <3>1, <3>2 DEF MarkSubnodes, TransitionsOK
    <3>4. transitions' = [transitions EXCEPT ![main.id] = tr]
      BY <2>2 DEF MarkSubnodes, SetTransition
    <3>5. main' = Free \/ main' = [main EXCEPT !.at = "measuring"]
      BY <2>2, Zenon DEF MarkSubnodes
    <3>6. main' \in Main /\ main'.at \in Elsewhere
      BY <1>main, <3>5, FreeIsElsewhere DEF Main, Doing, Elsewhere
    <3>7. lastID' = lastID
      BY <2>2 DEF MarkSubnodes
    <3> HIDE DEF tr
    <3>8. QED
      BY <3>2, <3>3, <3>4, <3>6, <3>7, TransitionGoesOn
  <2>3. CASE CommitLayout \/ CompleteSubnodes
    <3>1. PICK at \in {"committed", "completion"} : main' = [main EXCEPT !.at = at]
      BY <2>3, Zenon DEF CommitLayout, CompleteSubnodes, MainGoesOn
    <3>2. main' \in Main /\ main'.at \in Elsewhere
      BY <1>main, <3>1 DEF Main, Doing, Elsewhere
    <3>3. QED
      BY <2>3, <3>2, TransitionsFrame DEF CommitLayout, CompleteSubnodes,
                                          transitionVars
  <2>4. ASSUME NEW call \in CompletionCalls, Finish(call)
        PROVE  TransitionsOK'
    <3>1. main' = Free
      BY <2>4, Zenon DEF Finish
    <3>2. CASE call = "nothing"
      <4>1. transitions' = [transitions EXCEPT ![main.id] = Ended] /\ lastID' = lastID
        BY <2>4, <3>2 DEF Finish, End
      <4>2. Ended \in Transition /\ IsSound(Ended.layout)
        BY LayoutTypes
      <4>3. QED
        BY <3>1, <4>1, <4>2, FreeIsElsewhere, TransitionGoesOn
    <3>3. CASE call = "transition"
      <4>1. PICK id : /\ id = lastID + 1 /\ id = lastID' /\ lastID < MaxTransitions
                      /\ transitions' = [StartedTransitions(id) EXCEPT
                                           ![id].at = "block", ![main.id] = Ended]
        BY <2>4, <3>3 DEF Finish
      <4> DEFINE started == StartedTransitions(id)
                 begun   == [started[id] EXCEPT !.at = "block"]
                 both    == [started EXCEPT ![id] = begun]
      <4>2. begun \in Transition /\ IsSound(begun.layout)
        BY <4>1, TransitionStarts, LayoutTypes DEF Transition
      <4>3. transitions' = [both EXCEPT ![main.id] = Ended]
        BY <4>1
      <4>4. /\ both \in [Ids -> Transition]
            /\ \A t \in Ids : both[t] = IF t = id THEN begun ELSE started[t]
        BY <4>1, <4>2, TransitionStarts
      <4>5. \A t \in Ids : IsSound(started[t].layout) \/ started[t].at = "measure"
        BY <4>1, TransitionStarts
      <4>6. Ended \in Transition /\ IsSound(Ended.layout)
        BY LayoutTypes
      <4> HIDE DEF begun, both, started
      <4>7. /\ transitions' \in [Ids -> Transition]
            /\ \A t \in Ids : \/ transitions'[t] \in {Ended, begun}
                              \/ transitions'[t] = started[t]
        BY <4>2, <4>3, <4>4, <4>6
      <4>8. \A t \in Ids : \/ IsSound(transitions'[t].layout)
                           \/ transitions'[t].at = "measure"
        BY <4>2, <4>5, <4>6, <4>7
      <4>9. lastID' \in Nat
        BY <4>1, TransitionStarts
      <4>10. QED
        BY <3>1, <4>7, <4>8, <4>9, FreeIsElsewhere DEF TransitionsOK, Elsewhere
    <3>4. QED
      BY <3>2, <3>3, LayoutTransitionAssumption DEF LayoutTransitionAssumption
  <2>5. QED
    BY <1>4, <2>1, <2>2, <2>3, <2>4, Zenon DEF Continue
<1>5. ASSUME NEW t \in Ids, TransitionBlock(t) \/ BeginCommit(t)
      PROVE  TransitionsOK'
  BY <1>5, BlockTransitionsOK
<1>6. ASSUME NEW thread \in Cancellers, UnmarkSubnodes(thread)
      PROVE  TransitionsOK'
  <2>1. main' = main \/ main' = Free
    BY <1>6, Zenon DEF UnmarkSubnodes
  <2>2. QED
    BY <1>6, <2>1, TransitionsFrame, FreeIsElsewhere DEF UnmarkSubnodes, transitionVars
<1>7. QED
  BY <1>1, <1>2, <1>3, <1>4, <1>5, <1>6 DEF Next

\* A layout that is replaced by one that is sound, or not at all.
LEMMA PendingFrame ==
  ASSUME LayoutsOK, nextLayout' \in Layout, pending' \in [Nodes -> Layout],
         \A n \in Nodes : pending'[n] = pending[n] \/ IsSound(pending'[n]),
         calculated' \in [Nodes -> Layout],
         \A n \in Nodes :
           \/ calculated'[n] = calculated[n] /\ (n \in missed => n \in missed')
           \/ IsSound(calculated'[n]) \/ n \in missed'
  PROVE  LayoutsOK'
  BY DEF LayoutsOK, ValidLayoutsAreCurrent, IsSound

LEMMA MeasuredAreSound ==
  ASSUME NEW layouts \in [Nodes -> Layout], NEW M, NEW context
  PROVE  /\ Measured(layouts, M, context) \in [Nodes -> Layout]
         /\ \A n \in Nodes : \/ Measured(layouts, M, context)[n] = layouts[n]
                             \/ IsSound(Measured(layouts, M, context)[n])
  BY MeasuredLayouts DEF IsSound

LEMMA OutgrownAreSound ==
  ASSUME NEW layouts \in [Nodes -> Layout], NEW S
  PROVE  /\ Outgrown(layouts, S) \in [Nodes -> Layout]
         /\ \A n \in Nodes : \/ Outgrown(layouts, S)[n] = layouts[n]
                             \/ IsSound(Outgrown(layouts, S)[n])
  BY OutgrownLayouts DEF IsSound

\* The layout of a layout pass is new, or outgrown.
LEMMA NextLayoutKept ==
  ASSUME [Next]_vars
  PROVE  nextLayout' \in {nextLayout, NoLayout, FreshLayout}
<1>1. CASE UNCHANGED vars
  BY <1>1 DEF vars, layoutVars
<1>2. CASE Client
  BY <1>2 DEF Client, SetNeedsLayout, InvalidateCalculatedLayout, Change,
              LayoutThatFits, Remove, Insert, StartTransition,
              CancelLayoutTransition, layoutVars
<1>3. CASE LayoutPass
  BY <1>3 DEF LayoutPass, SkipLayoutPass, ReuseLayout, ApplyLayout, AskFromAbove
<1>4. CASE Continue
  BY <1>4 DEF Continue, ApplyAskedLayout, MarkSubnodes, CommitLayout,
              CompleteSubnodes, Finish, layoutVars
<1>5. ASSUME NEW t \in Ids, TransitionBlock(t) \/ BeginCommit(t)
      PROVE  nextLayout' = nextLayout
  BY <1>5 DEF TransitionBlock, BeginMeasuring, Measure, BeginCommit, layoutVars
<1>6. ASSUME NEW thread \in Cancellers, UnmarkSubnodes(thread)
      PROVE  nextLayout' = nextLayout
  BY <1>6 DEF UnmarkSubnodes, layoutVars
<1>7. QED
  BY <1>1, <1>2, <1>3, <1>4, <1>5, <1>6 DEF Next

LEMMA NextLayoutsOK == TransitionsOK /\ LayoutsOK /\ [Next]_vars => LayoutsOK'
<1> SUFFICES ASSUME TransitionsOK, LayoutsOK, [Next]_vars PROVE LayoutsOK'
  OBVIOUS
<1>types. /\ calculated \in [Nodes -> Layout] /\ pending \in [Nodes -> Layout]
         /\ nextLayout' \in Layout
  <2>1. nextLayout' \in {nextLayout, NoLayout, FreshLayout}
    BY NextLayoutKept
  <2>2. QED
    BY <2>1, LayoutTypes DEF LayoutsOK
<1>nodes. LaidOut \subseteq Nodes /\ Root \in Nodes
  BY LayoutTransitionAssumption, Zenon DEF LayoutTransitionAssumption
<1>same. ASSUME UNCHANGED <<calculated, pending, missed>> PROVE LayoutsOK'
  BY <1>types, <1>same DEF LayoutsOK, ValidLayoutsAreCurrent
<1>outgrown. ASSUME NEW S, calculated' = Outgrown(calculated, S),
                    pending' = Outgrown(pending, S), missed' = missed
             PROVE  LayoutsOK'
  BY <1>types, <1>outgrown, OutgrownAreSound, PendingFrame
<1>measured. ASSUME NEW M, NEW context, pending' = Measured(pending, M, context),
                    UNCHANGED <<calculated, missed>>
             PROVE  LayoutsOK'
  BY <1>types, <1>measured, MeasuredAreSound, PendingFrame
<1>1. CASE UNCHANGED vars
  BY <1>1, <1>same DEF vars, layoutVars
<1>2. CASE Client
  <2>1. ASSUME NEW n \in LaidOut, SetNeedsLayout(n) \/ InvalidateCalculatedLayout(n)
        PROVE  LayoutsOK'
    BY <2>1, <1>outgrown DEF SetNeedsLayout, InvalidateCalculatedLayout, Change
  <2>2. ASSUME NEW n \in LaidOut, LayoutThatFits(n)
        PROVE  LayoutsOK'
    BY <2>2, <1>measured DEF LayoutThatFits
  <2>3. ASSUME NEW n \in Moved,
               Remove(n) \/ \E p \in Nodes : Insert(n, p)
        PROVE  LayoutsOK'
    BY <2>3, <1>same DEF Remove, Insert, layoutVars
  <2>4. ASSUME NEW onTheSpot \in BOOLEAN, StartTransition(onTheSpot)
        PROVE  LayoutsOK'
    BY <2>4, <1>outgrown DEF StartTransition
  <2>5. ASSUME NEW thread \in Cancellers, CancelLayoutTransition(thread)
        PROVE  LayoutsOK'
    BY <2>5, <1>same DEF CancelLayoutTransition, layoutVars
  <2>6. QED
    BY <1>2, <2>1, <2>2, <2>3, <2>4, <2>5 DEF Client
<1>3. CASE LayoutPass
  <2>1. PICK n \in LaidOut :
          SkipLayoutPass(n) \/ ReuseLayout(n) \/ ApplyLayout(n) \/ AskFromAbove(n)
    BY <1>3, Zenon DEF LayoutPass
  <2>2. n \in Nodes
    BY <1>nodes
  <2>3. CASE SkipLayoutPass(n) \/ ReuseLayout(n)
    BY <2>3, <1>same DEF SkipLayoutPass, ReuseLayout
  <2>4. CASE ApplyLayout(n)
    <3>1. missed' = missed \ {n}
      BY <2>4, Zenon DEF ApplyLayout
    <3>2. CASE /\ pending[n].valid /\ UNCHANGED pending
               /\ calculated' = [calculated EXCEPT ![n] = pending[n]]
      <4>1. IsSound(pending[n])
        BY <2>2 DEF LayoutsOK, ValidLayoutsAreCurrent, IsSound
      <4>2. QED
        BY <1>types, <2>2, <3>1, <3>2, <4>1, PendingFrame
    <3>3. ASSUME NEW M,
                 calculated' = [calculated EXCEPT ![n] = FreshLayout],
                 pending' = [Measured(pending, M, DefaultTransitionID)
                               EXCEPT ![n] = NoLayout]
          PROVE  LayoutsOK'
      <4>1. /\ calculated' \in [Nodes -> Layout]
            /\ \A m \in Nodes : calculated'[m] = IF m = n THEN FreshLayout
                                                  ELSE calculated[m]
        BY <1>types, <3>3, LayoutTypes
      <4> DEFINE measured == Measured(pending, M, DefaultTransitionID)
      <4>2. /\ measured \in [Nodes -> Layout]
            /\ \A m \in Nodes : measured[m] = pending[m] \/ IsSound(measured[m])
        BY <1>types, MeasuredAreSound
      <4> HIDE DEF measured
      <4>3. /\ pending' \in [Nodes -> Layout]
            /\ \A m \in Nodes : pending'[m] = IF m = n THEN NoLayout ELSE measured[m]
        BY <3>3, <4>2, LayoutTypes DEF measured
      <4>4. \A m \in Nodes : pending'[m] = pending[m] \/ IsSound(pending'[m])
        BY <4>2, <4>3, LayoutTypes
      <4>5. \A m \in Nodes :
              \/ calculated'[m] = calculated[m] /\ (m \in missed => m \in missed')
              \/ IsSound(calculated'[m]) \/ m \in missed'
        BY <3>1, <4>1, LayoutTypes
      <4>6. QED
        BY <1>types, <4>1, <4>3, <4>4, <4>5, PendingFrame
    <3>4. QED
      BY <2>4, <3>2, <3>3 DEF ApplyLayout
  <2>5. CASE AskFromAbove(n)
    <3>1. PICK M : pending' = Measured(Outgrown(pending, Path(n)), M, InvalidTransitionID)
      BY <2>5, Zenon DEF AskFromAbove
    <3>2. calculated' = Outgrown(calculated, Path(n)) /\ missed' = missed
      BY <2>5, Zenon DEF AskFromAbove
    <3> DEFINE outgrown == Outgrown(pending, Path(n))
    <3>3. /\ outgrown \in [Nodes -> Layout]
          /\ \A m \in Nodes : outgrown[m] = pending[m] \/ IsSound(outgrown[m])
      BY <1>types, OutgrownAreSound
    <3> HIDE DEF outgrown
    <3>4. /\ pending' \in [Nodes -> Layout]
          /\ \A m \in Nodes : pending'[m] = outgrown[m] \/ IsSound(pending'[m])
      BY <3>1, <3>3, MeasuredAreSound DEF outgrown
    <3>5. QED
      BY <1>types, <3>2, <3>3, <3>4, OutgrownAreSound, PendingFrame
  <2>6. QED
    BY <2>1, <2>3, <2>4, <2>5
<1>4. CASE Continue
  <2>1. CASE ApplyAskedLayout
    <3>1. /\ calculated' = [calculated EXCEPT ![main.node] =
                              [valid |-> TRUE, current |-> nextLayout.current]]
          /\ pending' = [pending EXCEPT ![main.node] = NoLayout]
          /\ missed' = IF nextLayout.current THEN missed \ {main.node}
                       ELSE missed \cup {main.node}
      BY <2>1, Zenon DEF ApplyAskedLayout
    <3>2. PICK asked \in Layout :
             asked = [valid |-> TRUE, current |-> nextLayout.current]
      BY DEF LayoutsOK, Layout
    <3>3. /\ calculated' \in [Nodes -> Layout]
          /\ \A m \in Nodes : \/ calculated'[m] = calculated[m] /\ m # main.node
                              \/ calculated'[m] = asked /\ m = main.node
      BY <1>types, <3>1, <3>2
    <3>4. /\ pending' \in [Nodes -> Layout]
          /\ \A m \in Nodes : pending'[m] = pending[m] \/ IsSound(pending'[m])
      BY <1>types, <3>1, LayoutTypes
    <3>5. IsSound(asked) \/ main.node \in missed'
      BY <3>1, <3>2 DEF IsSound
    <3>6. QED
      BY <1>types, <3>1, <3>3, <3>4, <3>5, PendingFrame
  <2>2. CASE MarkSubnodes
    BY <2>2, <1>same DEF MarkSubnodes, layoutVars
  <2>3. CASE CommitLayout
    <3>1. /\ calculated' = [calculated EXCEPT ![Root] = transitions[main.id].layout]
          /\ pending' = pending /\ missed' = missed \ {Root}
      BY <2>3, Zenon DEF CommitLayout
    <3>2. /\ transitions[main.id].layout \in Layout
          /\ IsSound(transitions[main.id].layout)
      BY <2>3 DEF CommitLayout, TransitionsOK, Transition
    <3>3. /\ calculated' \in [Nodes -> Layout]
          /\ IsSound(calculated'[Root])
          /\ \A m \in Nodes \ {Root} : calculated'[m] = calculated[m]
      BY <1>types, <1>nodes, <3>1, <3>2
    <3>4. QED
      BY <1>types, <3>1, <3>3, PendingFrame
  <2>4. CASE CompleteSubnodes
    BY <2>4, <1>same DEF CompleteSubnodes, layoutVars
  <2>5. ASSUME NEW call \in CompletionCalls, Finish(call)
        PROVE  LayoutsOK'
    <3>1. call \in {"nothing", "transition"}
      BY LayoutTransitionAssumption, Zenon DEF LayoutTransitionAssumption
    <3>2. missed' = missed
      BY <2>5, Zenon DEF Finish
    <3>3. CASE call = "nothing"
      BY <2>5, <3>2, <3>3, <1>same DEF Finish
    <3>4. CASE call = "transition"
      BY <2>5, <3>2, <3>4, <1>outgrown DEF Finish
    <3>5. QED
      BY <3>1, <3>3, <3>4
  <2>6. QED
    BY <1>4, <2>1, <2>2, <2>3, <2>4, <2>5, Zenon DEF Continue
<1>5. ASSUME NEW t \in Ids, TransitionBlock(t) \/ BeginCommit(t)
      PROVE  LayoutsOK'
  <2>1. CASE BeginMeasuring(t) \/ BeginCommit(t)
    BY <2>1, <1>same DEF BeginMeasuring, BeginCommit, layoutVars
  <2>2. CASE Measure(t)
    BY <2>2, <1>measured DEF Measure
  <2>3. QED
    BY <1>5, <2>1, <2>2 DEF TransitionBlock
<1>6. ASSUME NEW thread \in Cancellers, UnmarkSubnodes(thread)
      PROVE  LayoutsOK'
  BY <1>6, <1>same DEF UnmarkSubnodes, layoutVars
<1>7. QED
  BY <1>1, <1>2, <1>3, <1>4, <1>5, <1>6 DEF Next

\* A layout that counts as valid was measured after the last change of its node,
\* whoever changes it, measures it, starts and cancels transitions, and whenever:
\* but for a change while a layout pass has let go its lock to ask for another
\* size.
THEOREM ValidLayoutsAreAlwaysCurrent == Spec => []ValidLayoutsAreCurrent
<1>1. TransitionsOK /\ LayoutsOK /\ [Next]_vars => TransitionsOK' /\ LayoutsOK'
  BY NextTransitionsOK, NextLayoutsOK
<1>2. LayoutsOK => ValidLayoutsAreCurrent
  BY DEF LayoutsOK
<1>3. QED
  BY InitTransitionsOK, InitLayoutsOK, <1>1, <1>2, PTL DEF Spec

-----------------------------------------------------------------------------
(* Trees that nodes are inserted in and removed from. *)

\* Path in the tree super.
PathIn(super, n) ==
  LET up[m \in Nodes \cup {NoNode}] ==
        IF m = NoNode THEN {} ELSE {m} \cup up[super[m]]
  IN  up[n]

\* Going up always ends: no set of nodes contains the supernodes of them all.
IsForest(super) ==
  /\ super \in [Nodes -> Nodes \cup {NoNode}]
  /\ \A S \in SUBSET Nodes : S # {} => \E n \in S : super[n] \notin S

LEMMA NoNodeIsNone == NoNode \notin Nodes
  BY LayoutTransitionAssumption, Zenon DEF LayoutTransitionAssumption

\* The nodes above n are those in every set that contains n and, with a node,
\* its supernode; so a path in the sense of PathIn exists.
LEMMA PathGoesUp ==
  ASSUME NEW super \in [Nodes -> Nodes \cup {NoNode}]
  PROVE  /\ PathIn(super, NoNode) = {}
         /\ \A n \in Nodes : PathIn(super, n) = {n} \cup PathIn(super, super[n])
<1> DEFINE IsClosed(C) == \A x \in C : super[x] \in C \cup {NoNode}
           Above(n) == {x \in Nodes : \A C \in SUBSET Nodes :
                                        n \in C /\ IsClosed(C) => x \in C}
           above == [n \in Nodes \cup {NoNode} |-> IF n = NoNode THEN {} ELSE Above(n)]
           IsPath(f) == f = [n \in Nodes \cup {NoNode} |->
                               IF n = NoNode THEN {} ELSE {n} \cup f[super[n]]]
           up == CHOOSE f : IsPath(f)
<1>1. ASSUME NEW n \in Nodes PROVE above[n] = {n} \cup above[super[n]]
  <2>1. above[n] = Above(n) /\ n \in Above(n)
    BY NoNodeIsNone
  <2>2. CASE super[n] = NoNode
    <3>1. {n} \in SUBSET Nodes /\ n \in {n} /\ IsClosed({n})
      BY <2>2
    <3>2. \A x \in Above(n) : x \in {n}
      BY <3>1
    <3>3. QED
      BY <2>1, <2>2, <3>2
  <2>3. CASE super[n] # NoNode
    <3>1. super[n] \in Nodes /\ above[super[n]] = Above(super[n])
      BY <2>3
    <3>2. ASSUME NEW x \in Above(super[n]) PROVE x \in Above(n)
      <4>1. ASSUME NEW C \in SUBSET Nodes, n \in C, IsClosed(C) PROVE x \in C
        <5>1. super[n] \in C
          BY <2>3, <4>1
        <5>2. QED
          BY <3>2, <4>1, <5>1
      <4>2. QED
        BY <3>2, <4>1
    <3>3. ASSUME NEW x \in Above(n), x # n PROVE x \in Above(super[n])
      <4>1. ASSUME NEW C \in SUBSET Nodes, super[n] \in C, IsClosed(C) PROVE x \in C
        <5>1. C \cup {n} \in SUBSET Nodes /\ n \in C \cup {n} /\ IsClosed(C \cup {n})
          BY <4>1
        <5>2. x \in C \cup {n}
          BY <3>3, <5>1
        <5>3. QED
          BY <3>3, <5>2
      <4>2. QED
        BY <3>3, <4>1
    <3> HIDE DEF Above, above
    <3>4. QED
      BY <2>1, <3>1, <3>2, <3>3
  <2>4. QED
    BY <2>2, <2>3
<1>2. IsPath(above)
  BY <1>1, NoNodeIsNone
<1>3. IsPath(up)
  <2> HIDE DEF IsPath, above
  <2>1. QED
    BY <1>2
<1>4. \A n \in Nodes \cup {NoNode} : PathIn(super, n) = up[n]
  BY DEF PathIn
<1> HIDE DEF up
<1>5. up[NoNode] = {} /\ \A n \in Nodes : up[n] = {n} \cup up[super[n]]
  BY <1>3, NoNodeIsNone
<1>6. QED
  BY <1>4, <1>5

\* A node without supernode is inserted below p.
LEMMA InsertInForest ==
  ASSUME NEW super, IsForest(super), NEW n \in Nodes, NEW p \in Nodes,
         super[n] = NoNode, n \notin PathIn(super, p),
         NEW inserted, inserted = [super EXCEPT ![n] = p]
  PROVE  /\ IsForest(inserted)
         /\ \A m \in Nodes : PathIn(super, m) \subseteq PathIn(inserted, m)
         /\ \A m \in Nodes : n \in PathIn(super, m) =>
                               PathIn(inserted, p) \subseteq PathIn(inserted, m)
<1> USE NoNodeIsNone
<1>1. super \in [Nodes -> Nodes \cup {NoNode}]
  BY DEF IsForest
<1>2. inserted \in [Nodes -> Nodes \cup {NoNode}]
  BY <1>1
<1>3. /\ PathIn(super, NoNode) = {}
      /\ \A m \in Nodes : PathIn(super, m) = {m} \cup PathIn(super, super[m])
  BY <1>1, PathGoesUp
<1>4. \A m \in Nodes : PathIn(inserted, m) = {m} \cup PathIn(inserted, inserted[m])
  BY <1>2, PathGoesUp
<1>5. ASSUME NEW S \in SUBSET Nodes, S # {} PROVE \E m \in S : super[m] \notin S
  BY <1>5 DEF IsForest
<1>6. /\ inserted[n] = p
      /\ \A m \in Nodes : m # n => inserted[m] = super[m]
  BY <1>1
<1>7. ASSUME NEW S \in SUBSET Nodes, S # {}, \A m \in S : inserted[m] \in S
      PROVE  FALSE
  <2> DEFINE T == {m \in S : n \notin PathIn(super, m)}
  <2>1. CASE T = {}
    <3>1. n \notin S
      BY <2>1, <1>6, <1>7
    <3>2. PICK m \in S : super[m] \notin S
      BY <1>5, <1>7
    <3>3. QED
      BY <1>6, <1>7, <3>1, <3>2
  <2>2. CASE T # {}
    <3>1. PICK m \in T : super[m] \notin T
      BY <1>5, <2>2
    <3>2. m # n /\ super[m] \in S
      BY <1>3, <1>6, <1>7, <3>1
    <3>3. QED
      BY <1>3, <3>1, <3>2
  <2>3. QED
    BY <2>1, <2>2
<1>8. ASSUME NEW m \in Nodes PROVE PathIn(super, m) \subseteq PathIn(inserted, m)
  <2> DEFINE S == {x \in Nodes : ~(PathIn(super, x) \subseteq PathIn(inserted, x))}
  <2>1. SUFFICES ASSUME S # {} PROVE FALSE
    OBVIOUS
  <2>2. PICK x \in S : super[x] \notin S
    BY <1>5, <2>1
  <2>3. PathIn(super, x) = {x} \cup PathIn(super, super[x])
    BY <1>3
  <2>here. /\ PathIn(inserted, x) = {x} \cup PathIn(inserted, inserted[x])
        /\ ~(PathIn(super, x) \subseteq PathIn(inserted, x))
    BY <1>4, <2>2
  <2>4. CASE super[x] = NoNode
    <3>1. PathIn(super, x) = {x}
      BY <1>3, <2>3, <2>4
    <3>2. QED
      BY <2>here, <3>1
  <2>5. CASE super[x] # NoNode
    <3>1. super[x] \in Nodes /\ inserted[x] = super[x]
      BY <1>1, <1>6, <2>5
    <3>2. PathIn(super, super[x]) \subseteq PathIn(inserted, super[x])
      BY <2>2, <3>1
    <3>3. PathIn(super, super[x]) \subseteq PathIn(inserted, inserted[x])
      BY <3>1, <3>2
    <3> HIDE DEF S
    <3>4. QED
      BY <2>3, <2>here, <3>3, Zenon
  <2>6. QED
    BY <2>4, <2>5
<1>9. ASSUME NEW m \in Nodes, n \in PathIn(super, m)
      PROVE  PathIn(inserted, p) \subseteq PathIn(inserted, m)
  <2> DEFINE S == {x \in Nodes : /\ n \in PathIn(super, x)
                                 /\ ~(PathIn(inserted, p) \subseteq PathIn(inserted, x))}
  <2>1. SUFFICES ASSUME S # {} PROVE FALSE
    BY <1>9
  <2>2. PICK x \in S : super[x] \notin S
    BY <1>5, <2>1
  <2>here. /\ PathIn(inserted, x) = {x} \cup PathIn(inserted, inserted[x])
        /\ ~(PathIn(inserted, p) \subseteq PathIn(inserted, x))
    BY <1>4, <2>2
  <2>3. CASE x = n
    BY <1>6, <2>here, <2>3
  <2>4. CASE x # n
    <3>1. n \in PathIn(super, super[x])
      BY <1>3, <2>2, <2>4
    <3>2. super[x] \in Nodes /\ inserted[x] = super[x]
      BY <1>1, <1>3, <1>6, <2>4, <3>1
    <3>3. PathIn(inserted, p) \subseteq PathIn(inserted, super[x])
      BY <2>2, <3>1, <3>2
    <3>4. QED
      BY <2>here, <3>2, <3>3
  <2>5. QED
    BY <2>3, <2>4
<1>10. QED
  BY <1>2, <1>7, <1>8, <1>9 DEF IsForest

\* A node is removed: the paths that do not lead through it stay.
LEMMA RemoveFromForest ==
  ASSUME NEW super, IsForest(super), NEW n \in Nodes,
         NEW removed, removed = [super EXCEPT ![n] = NoNode]
  PROVE  /\ IsForest(removed)
         /\ \A m \in Nodes : n \notin PathIn(super, m) =>
                               PathIn(super, m) \subseteq PathIn(removed, m)
<1> USE NoNodeIsNone
<1>1. super \in [Nodes -> Nodes \cup {NoNode}]
  BY DEF IsForest
<1>2. removed \in [Nodes -> Nodes \cup {NoNode}]
  BY <1>1
<1>3. /\ PathIn(super, NoNode) = {}
      /\ \A m \in Nodes : PathIn(super, m) = {m} \cup PathIn(super, super[m])
  BY <1>1, PathGoesUp
<1>4. \A m \in Nodes : PathIn(removed, m) = {m} \cup PathIn(removed, removed[m])
  BY <1>2, PathGoesUp
<1>5. ASSUME NEW S \in SUBSET Nodes, S # {} PROVE \E m \in S : super[m] \notin S
  BY <1>5 DEF IsForest
<1>6. /\ removed[n] = NoNode
      /\ \A m \in Nodes : m # n => removed[m] = super[m]
  BY <1>1
<1>7. ASSUME NEW S \in SUBSET Nodes, S # {} PROVE \E m \in S : removed[m] \notin S
  <2>1. PICK m \in S : super[m] \notin S
    BY <1>5, <1>7
  <2>2. removed[m] \notin S
    BY <1>6, <2>1
  <2>3. QED
    BY <2>2
<1>8. ASSUME NEW m \in Nodes, n \notin PathIn(super, m)
      PROVE  PathIn(super, m) \subseteq PathIn(removed, m)
  <2> DEFINE S == {x \in Nodes : /\ n \notin PathIn(super, x)
                                 /\ ~(PathIn(super, x) \subseteq PathIn(removed, x))}
  <2>1. SUFFICES ASSUME S # {} PROVE FALSE
    BY <1>8
  <2>2. PICK x \in S : super[x] \notin S
    BY <1>5, <2>1
  <2>3. /\ PathIn(super, x) = {x} \cup PathIn(super, super[x])
        /\ x # n /\ n \notin PathIn(super, super[x])
    BY <1>3, <2>2
  <2>here. /\ PathIn(removed, x) = {x} \cup PathIn(removed, removed[x])
        /\ ~(PathIn(super, x) \subseteq PathIn(removed, x))
    BY <1>4, <2>2
  <2>4. CASE super[x] = NoNode
    <3>1. PathIn(super, x) = {x}
      BY <1>3, <2>3, <2>4
    <3>2. QED
      BY <2>here, <3>1
  <2>5. CASE super[x] # NoNode
    <3>1. super[x] \in Nodes /\ removed[x] = super[x]
      BY <1>1, <1>6, <2>3, <2>5
    <3>2. PathIn(super, super[x]) \subseteq PathIn(removed, super[x])
      BY <2>2, <2>3, <3>1
    <3>3. PathIn(super, super[x]) \subseteq PathIn(removed, removed[x])
      BY <3>1, <3>2
    <3> HIDE DEF S
    <3>4. QED
      BY <2>3, <2>here, <3>3, Zenon
  <2>6. QED
    BY <2>4, <2>5
<1>9. QED
  BY <1>2, <1>7, <1>8 DEF IsForest

-----------------------------------------------------------------------------
(* Which nodes are in LayoutPending, for any tree, as long as cancellations *)
(* are on main and completion blocks start no transition.                   *)

BelowRoot(n) == n \in Nodes \ {Root} /\ Root \in PathIn(supernode, n)

TreeOK ==
  /\ IsForest(supernode) /\ supernode[Root] = NoNode
  /\ \A n \in layoutPending : BelowRoot(n)

\* What main is in the middle of.
MainOK ==
  /\ canceller = "idle"
  /\ main.at \in {"mark", "mark and measure"} =>
       main.id = transitionID /\ transitionID # InvalidTransitionID
  /\ main.at = "cancel" => main.id = 0
  /\ main.at = "completion" => layoutPending = {}

PendingOK == TransitionsOK /\ TreeOK /\ MainOK /\ NoStuckPending

LEMMA PathIsIn == \A n : Path(n) = PathIn(supernode, n)
  BY DEF Path, PathIn

LEMMA SubnodesAreBelow ==
  ASSUME supernode \in [Nodes -> Nodes \cup {NoNode}]
  PROVE  \A n : n \in Subnodes(Root) <=> BelowRoot(n)
  BY PathIsIn DEF Subnodes, Subtree, BelowRoot

LEMMA InitPendingOK == Init => PendingOK
<1> SUFFICES ASSUME Init PROVE PendingOK
  OBVIOUS
<1>1. TreeOK
  BY LayoutTransitionAssumption DEF Init, TreeOK, IsForest, LayoutTransitionAssumption
<1>2. main = Free /\ canceller = "idle" /\ layoutPending = {}
  BY DEF Init
<1>3. MainOK /\ NoStuckPending
  BY <1>2 DEF MainOK, NoStuckPending, Free
<1>4. QED
  BY <1>1, <1>3, InitTransitionsOK DEF PendingOK

\* Steps of others while main goes on with what it does, or comes or goes.
Quiet == {"free", "asking", "measuring", "commit", "committed"}

LEMMA NobodyMarked ==
  ASSUME PendingOK, TransitionsOK', UNCHANGED <<supernode, transitionID, canceller>>,
         UNCHANGED stateVars,
         main' = main \/ (main.at \in Quiet /\ main'.at \in Quiet)
  PROVE  PendingOK'
<1>1. TreeOK'
  BY DEF PendingOK, TreeOK, BelowRoot, stateVars
<1>2. MainOK'
  BY DEF PendingOK, MainOK, stateVars, Quiet
<1>3. NoStuckPending'
  BY DEF PendingOK, NoStuckPending, MainOK, stateVars, Quiet
<1>4. QED
  BY <1>1, <1>2, <1>3 DEF PendingOK

\* The subnodes are marked with the id of the transition.
LEMMA NoStuckPendingKept ==
  ASSUME \A n \in layoutPending' : pendingTransitionID'[n] = transitionID',
         layoutPending' # {} => transitionID' # InvalidTransitionID
  PROVE  NoStuckPending'
  BY DEF NoStuckPending

LEMMA InsertPendingOK ==
  ASSUME PendingOK, NEW n \in Moved, NEW p \in Nodes, Insert(n, p)
  PROVE  TreeOK' /\ NoStuckPending'
<1>1. /\ main = Free /\ supernode[n] = NoNode /\ p \notin Subtree(n)
      /\ supernode' = [supernode EXCEPT ![n] = p]
      /\ UNCHANGED <<transitionID, main, canceller>>
  BY DEF Insert, transitionVars
<1>2. n \in Nodes /\ n # Root /\ Root \in Nodes
  BY LayoutTransitionAssumption, Zenon DEF LayoutTransitionAssumption
<1>3. /\ IsForest(supernode) /\ supernode[Root] = NoNode
      /\ \A m \in layoutPending : BelowRoot(m)
  BY DEF PendingOK, TreeOK
<1>4. n \notin PathIn(supernode, p)
  BY <1>1, PathIsIn DEF Subtree
<1>5. /\ IsForest(supernode')
      /\ \A m \in Nodes : PathIn(supernode, m) \subseteq PathIn(supernode', m)
      /\ \A m \in Nodes : n \in PathIn(supernode, m) =>
                            PathIn(supernode', p) \subseteq PathIn(supernode', m)
  BY <1>1, <1>2, <1>3, <1>4, InsertInForest
<1>6. supernode'[Root] = NoNode
  BY <1>1, <1>2, <1>3 DEF IsForest
<1>7. \A m \in layoutPending : BelowRoot(m)'
  BY <1>3, <1>5 DEF BelowRoot
<1>8. \A m \in layoutPending : /\ pendingTransitionID[m] = transitionID
                               /\ transitionID # InvalidTransitionID
  BY <1>1 DEF PendingOK, MainOK, NoStuckPending, Free
<1>9. CASE p \notin layoutPending
  <2>1. UNCHANGED stateVars
    BY <1>9 DEF Insert
  <2>2. QED
    BY <1>1, <1>5, <1>6, <1>7, <1>8, <2>1, NoStuckPendingKept DEF TreeOK, stateVars
<1>10. CASE p \in layoutPending
  <2>1. EnterLayoutPending(Subtree(n), pendingTransitionID[p])
    BY <1>10 DEF Insert
  <2>2. pendingTransitionID[p] = transitionID
    BY <1>8, <1>10
  <2>3. ASSUME NEW m \in Subtree(n) PROVE BelowRoot(m)'
    <3>1. m \in Nodes /\ n \in PathIn(supernode, m)
      BY PathIsIn DEF Subtree
    <3>2. Root \in PathIn(supernode', p)
      BY <1>7, <1>10 DEF BelowRoot
    <3>3. m # Root
      <4>1. PathIn(supernode, Root) = {Root}
        BY <1>2, <1>3, PathGoesUp DEF IsForest
      <4>2. QED
        BY <1>2, <3>1, <4>1
    <3>4. QED
      BY <1>5, <3>1, <3>2, <3>3 DEF BelowRoot
  <2>4. TreeOK'
    BY <1>5, <1>6, <1>7, <2>1, <2>3 DEF TreeOK, EnterLayoutPending
  <2>5. /\ Subtree(n) \subseteq Nodes
        /\ \A m \in layoutPending : m \in Nodes
    BY <1>3 DEF Subtree, BelowRoot
  <2>6. \A m \in layoutPending' : pendingTransitionID'[m] = transitionID
    BY <1>8, <2>1, <2>2, <2>5 DEF EnterLayoutPending
  <2>7. QED
    BY <1>1, <1>8, <1>10, <2>4, <2>6, NoStuckPendingKept
<1>11. QED
  BY <1>9, <1>10

LEMMA RemovePendingOK ==
  ASSUME PendingOK, NEW n \in Moved, Remove(n)
  PROVE  TreeOK' /\ NoStuckPending'
<1>1. /\ main = Free /\ supernode' = [supernode EXCEPT ![n] = NoNode]
      /\ UNCHANGED <<transitionID, main, canceller>>
      /\ ExitLayoutPending(Subtree(n))
  BY DEF Remove, transitionVars
<1>2. n \in Nodes /\ n # Root /\ Root \in Nodes
  BY LayoutTransitionAssumption, Zenon DEF LayoutTransitionAssumption
<1>3. /\ IsForest(supernode) /\ supernode[Root] = NoNode
      /\ \A m \in layoutPending : BelowRoot(m)
  BY DEF PendingOK, TreeOK
<1>4. /\ IsForest(supernode')
      /\ \A m \in Nodes : n \notin PathIn(supernode, m) =>
                            PathIn(supernode, m) \subseteq PathIn(supernode', m)
  BY <1>1, <1>2, <1>3, RemoveFromForest
<1>5. supernode'[Root] = NoNode
  BY <1>1, <1>2, <1>3 DEF IsForest
<1>6. ASSUME NEW m \in layoutPending'
      PROVE  BelowRoot(m)' /\ m \in layoutPending /\ pendingTransitionID'[m] = pendingTransitionID[m]
  <2>1. m \in layoutPending /\ m \notin Subtree(n) /\ BelowRoot(m)
    BY <1>1, <1>3 DEF ExitLayoutPending
  <2>2. m \in Nodes /\ n \notin PathIn(supernode, m)
    BY <2>1, PathIsIn DEF Subtree, BelowRoot
  <2>3. pendingTransitionID'[m] = pendingTransitionID[m]
    BY <1>1, <2>1, <2>2 DEF ExitLayoutPending
  <2>4. QED
    BY <1>4, <2>1, <2>2, <2>3 DEF BelowRoot
<1>7. TreeOK'
  BY <1>4, <1>5, <1>6 DEF TreeOK
<1>8. \A m \in layoutPending : /\ pendingTransitionID[m] = transitionID
                               /\ transitionID # InvalidTransitionID
  BY <1>1 DEF PendingOK, MainOK, NoStuckPending, Free
<1>9. QED
  BY <1>1, <1>6, <1>7, <1>8, NoStuckPendingKept

\* The tree goes on below Root, and nobody else is in LayoutPending.
LEMMA TreeFrame ==
  ASSUME TreeOK, supernode' = supernode,
         \A n \in layoutPending' : n \in layoutPending \/ n \in Subnodes(Root)
  PROVE  TreeOK'
  BY SubnodesAreBelow DEF TreeOK, BelowRoot, IsForest

LEMMA ExitEmpties ==
  ASSUME TreeOK, ExitLayoutPending(Subnodes(Root))
  PROVE  layoutPending' = {}
<1>1. \A n \in layoutPending : n \in Subnodes(Root)
  BY SubnodesAreBelow DEF TreeOK, IsForest
<1>2. QED
  BY <1>1 DEF ExitLayoutPending

LEMMA NewIdIsValid ==
  ASSUME lastID \in Nat
  PROVE  lastID + 1 # InvalidTransitionID
  BY DEF InvalidTransitionID

LEMMA NextPendingOK ==
  ASSUME "background" \notin Cancellers, "transition" \notin CompletionCalls,
         PendingOK, [Next]_vars
  PROVE  PendingOK'
<1>ok. TransitionsOK /\ TreeOK /\ MainOK /\ NoStuckPending
  BY DEF PendingOK
<1>next. TransitionsOK'
  BY NextTransitionsOK DEF PendingOK
<1>free. Free.at = "free" /\ Free.id = 0
  BY DEF Free
<1>main. main \in Main
  BY DEF PendingOK, TransitionsOK
<1>thread. \A thread \in Cancellers : thread = "main"
  BY LayoutTransitionAssumption DEF LayoutTransitionAssumption
<1>1. CASE UNCHANGED vars
  BY <1>1, <1>next, NobodyMarked DEF vars, transitionVars
<1>2. CASE Client
  <2>1. ASSUME NEW n \in LaidOut,
               SetNeedsLayout(n) \/ InvalidateCalculatedLayout(n) \/ LayoutThatFits(n)
        PROVE  PendingOK'
    BY <2>1, <1>next, NobodyMarked
    DEF SetNeedsLayout, InvalidateCalculatedLayout, Change, LayoutThatFits,
        transitionVars
  <2>2. ASSUME NEW n \in Moved, Remove(n)
        PROVE  PendingOK'
    <3>1. UNCHANGED <<transitionID, main, canceller>> /\ main = Free
      BY <2>2 DEF Remove, transitionVars
    <3>2. MainOK'
      BY <1>ok, <1>free, <3>1 DEF MainOK
    <3>3. QED
      BY <2>2, <1>next, <3>2, RemovePendingOK DEF PendingOK
  <2>3. ASSUME NEW n \in Moved, NEW p \in Nodes, Insert(n, p)
        PROVE  PendingOK'
    <3>1. UNCHANGED <<transitionID, main, canceller>> /\ main = Free
      BY <2>3 DEF Insert, transitionVars
    <3>2. MainOK'
      BY <1>ok, <1>free, <3>1 DEF MainOK
    <3>3. QED
      BY <2>3, <1>next, <3>2, InsertPendingOK DEF PendingOK
  <2>4. ASSUME NEW onTheSpot \in BOOLEAN, StartTransition(onTheSpot)
        PROVE  PendingOK'
    <3>1. PICK id : /\ id = lastID + 1 /\ transitionID' = id
                    /\ UNCHANGED <<supernode, canceller>> /\ UNCHANGED stateVars
      BY <2>4, Zenon DEF StartTransition
    <3>2. PICK at \in {"mark", "mark and measure"} :
            main' = [at |-> at, id |-> id, node |-> NoNode]
      BY <2>4, <3>1, Zenon DEF StartTransition
    <3>3. id # InvalidTransitionID
      <4>1. lastID \in Nat
        BY <1>ok DEF TransitionsOK
      <4>2. lastID + 1 # InvalidTransitionID
        BY <4>1, NewIdIsValid
      <4>3. QED
        BY <3>1, <4>2, Zenon
    <3>4. main'.at \in {"mark", "mark and measure"} /\ main'.id = id
      BY <3>2
    <3>5. TreeOK'
      BY <1>ok, <3>1, TreeFrame DEF stateVars
    <3>6. MainOK' /\ NoStuckPending'
      BY <1>ok, <3>1, <3>3, <3>4 DEF MainOK, NoStuckPending
    <3>7. QED
      BY <1>next, <3>5, <3>6 DEF PendingOK
  <2>5. ASSUME NEW thread \in Cancellers, CancelLayoutTransition(thread)
        PROVE  PendingOK'
    <3>1. /\ main = Free /\ main' = [main EXCEPT !.at = "cancel"]
          /\ UNCHANGED canceller
      BY <2>5, <1>thread DEF CancelLayoutTransition, MainGoesOn
    <3>2. main'.at = "cancel" /\ main'.id = 0
      BY <1>free, <1>main, <3>1 DEF Main
    <3>3. UNCHANGED supernode /\ UNCHANGED stateVars
      BY <2>5 DEF CancelLayoutTransition
    <3>4. TreeOK'
      BY <1>ok, <3>3, TreeFrame DEF stateVars
    <3>5. MainOK' /\ NoStuckPending'
      BY <1>ok, <3>1, <3>2 DEF MainOK, NoStuckPending
    <3>6. QED
      BY <1>next, <3>4, <3>5 DEF PendingOK
  <2>6. QED
    BY <1>2, <2>1, <2>2, <2>3, <2>4, <2>5 DEF Client
<1>3. CASE LayoutPass
  <2>1. PICK n \in LaidOut :
          SkipLayoutPass(n) \/ ReuseLayout(n) \/ ApplyLayout(n) \/ AskFromAbove(n)
    BY <1>3, Zenon DEF LayoutPass
  <2>2. CASE SkipLayoutPass(n) \/ ReuseLayout(n) \/ ApplyLayout(n)
    BY <2>2, <1>next, NobodyMarked
    DEF SkipLayoutPass, ReuseLayout, ApplyLayout, transitionVars
  <2>3. CASE AskFromAbove(n)
    <3>1. main = Free /\ main' = [at |-> "asking", id |-> 0, node |-> n]
      BY <2>3 DEF AskFromAbove, Measures
    <3>2. main.at \in Quiet /\ main'.at \in Quiet
      BY <3>1, <1>free DEF Quiet
    <3>3. QED
      BY <2>3, <1>next, <3>2, NobodyMarked DEF AskFromAbove
  <2>4. QED
    BY <2>1, <2>2, <2>3
<1>4. CASE Continue
  <2>1. CASE ApplyAskedLayout
    <3>1. main.at = "asking" /\ main' = Free
      BY <2>1 DEF ApplyAskedLayout
    <3>2. main.at \in Quiet /\ main'.at \in Quiet
      BY <3>1, <1>free DEF Quiet
    <3>3. QED
      BY <2>1, <1>next, <3>2, NobodyMarked DEF ApplyAskedLayout, transitionVars
  <2>2. CASE MarkSubnodes
    <3>1. /\ EnterLayoutPending(Subnodes(Root), main.id)
          /\ UNCHANGED <<supernode, transitionID, canceller>>
          /\ main.at \in {"mark", "mark and measure"}
      BY <2>2 DEF MarkSubnodes
    <3>2. main.id = transitionID /\ transitionID # InvalidTransitionID
      BY <1>ok, <3>1 DEF MainOK
    <3>3. \A n \in layoutPending' : n \in Subnodes(Root) /\ n \in Nodes
      <4>1. \A n : n \in Subnodes(Root) <=> BelowRoot(n)
        BY <1>ok, SubnodesAreBelow DEF TreeOK, IsForest
      <4>2. QED
        BY <1>ok, <3>1, <4>1 DEF TreeOK, EnterLayoutPending, BelowRoot
    <3>4. \A n \in layoutPending' : pendingTransitionID'[n] = transitionID
      BY <3>1, <3>2, <3>3 DEF EnterLayoutPending
    <3>5. TreeOK'
      BY <1>ok, <3>1, <3>3, TreeFrame
    <3>6. NoStuckPending'
      BY <3>1, <3>2, <3>4, NoStuckPendingKept
    <3>7. main' = Free \/ main' = [main EXCEPT !.at = "measuring"]
      BY <2>2, Zenon DEF MarkSubnodes
    <3>8. main'.at \in {"free", "measuring"}
      BY <1>free, <1>main, <3>7 DEF Main
    <3>9. MainOK'
      BY <1>ok, <3>1, <3>8 DEF MainOK
    <3>10. QED
      BY <1>next, <3>5, <3>6, <3>9 DEF PendingOK
  <2>3. CASE CommitLayout
    <3>1. main.at = "commit" /\ main' = [main EXCEPT !.at = "committed"]
      BY <2>3 DEF CommitLayout, MainGoesOn
    <3>2. main.at \in Quiet /\ main'.at \in Quiet
      BY <3>1, <1>main DEF Quiet, Main
    <3>3. QED
      BY <2>3, <1>next, <3>2, NobodyMarked DEF CommitLayout, transitionVars
  <2>4. CASE CompleteSubnodes
    <3>1. /\ ExitLayoutPending(Subnodes(Root)) /\ canceller' = canceller
          /\ supernode' = supernode /\ main' = [main EXCEPT !.at = "completion"]
      BY <2>4 DEF CompleteSubnodes, MainGoesOn
    <3>2. layoutPending' = {}
      BY <1>ok, <3>1, ExitEmpties
    <3>3. main'.at = "completion"
      BY <1>main, <3>1 DEF Main
    <3>4. TreeOK'
      BY <1>ok, <3>1, <3>2, TreeFrame
    <3>5. MainOK'
      BY <1>ok, <3>1, <3>2, <3>3 DEF MainOK
    <3>6. NoStuckPending'
      BY <3>2, NoStuckPendingKept
    <3>7. QED
      BY <1>next, <3>4, <3>5, <3>6 DEF PendingOK
  <2>5. ASSUME NEW call \in CompletionCalls, Finish(call)
        PROVE  PendingOK'
    <3>1. call = "nothing"
      BY LayoutTransitionAssumption DEF LayoutTransitionAssumption
    <3>2. /\ main.at = "completion" /\ main' = Free
          /\ UNCHANGED <<supernode, canceller>> /\ UNCHANGED stateVars
      BY <2>5, <3>1 DEF Finish
    <3>3. layoutPending' = {}
      BY <1>ok, <3>2 DEF MainOK, stateVars
    <3>4. TreeOK'
      BY <1>ok, <3>2, <3>3, TreeFrame
    <3>5. MainOK'
      BY <1>ok, <1>free, <3>2, <3>3 DEF MainOK
    <3>6. NoStuckPending'
      BY <3>3, NoStuckPendingKept
    <3>7. QED
      BY <1>next, <3>4, <3>5, <3>6 DEF PendingOK
  <2>6. QED
    BY <1>4, <2>1, <2>2, <2>3, <2>4, <2>5, Zenon DEF Continue
<1>5. ASSUME NEW t \in Ids, TransitionBlock(t) \/ BeginCommit(t)
      PROVE  PendingOK'
  <2>1. UNCHANGED <<supernode, transitionID, canceller>> /\ UNCHANGED stateVars
    BY <1>5 DEF TransitionBlock, BeginMeasuring, Measure, BeginCommit
  <2>2. CASE TransitionBlock(t)
    <3>1. transitions[t].at \in {"block", "measure"}
      BY <2>2 DEF TransitionBlock, BeginMeasuring, Measure
    <3>2. main' = main \/ (main' = Free /\ main.id = t)
      BY <2>2 DEF TransitionBlock, BeginMeasuring, Measure, Return
    <3>3. main.id = t => main.at \notin {"mark", "mark and measure", "cancel"}
      <4>1. t # 0
        BY DEF Ids
      <4>2. main.at = "cancel" => main.id = 0
        BY <1>ok DEF MainOK
      <4>3. main.at \in {"mark", "mark and measure"} =>
              transitions[main.id].at = "started"
        BY <1>ok DEF TransitionsOK
      <4>4. QED
        BY <3>1, <4>1, <4>2, <4>3
    <3>4. CASE main' = main
      BY <1>next, <2>1, <3>4, NobodyMarked
    <3>5. CASE main' = Free /\ main.id = t
      <4>1. NoStuckPending'
        BY <1>ok, <2>1, <3>3, <3>5 DEF NoStuckPending, MainOK, stateVars
      <4>2. TreeOK'
        BY <1>ok, <2>1, TreeFrame DEF stateVars
      <4>3. MainOK'
        BY <1>ok, <1>free, <2>1, <3>5 DEF MainOK
      <4>4. QED
        BY <1>next, <4>1, <4>2, <4>3 DEF PendingOK
    <3>6. QED
      BY <3>2, <3>4, <3>5
  <2>3. CASE BeginCommit(t)
    <3>1. main = Free \/ main.at = "measuring"
      BY <2>3 DEF BeginCommit, MainIsFreeFor
    <3>2. main' = Free \/ main' = [at |-> "commit", id |-> t, node |-> NoNode]
      BY <2>3, Zenon DEF BeginCommit
    <3>3. main.at \in Quiet /\ main'.at \in Quiet
      BY <1>free, <3>1, <3>2 DEF Quiet
    <3>4. QED
      BY <1>next, <2>1, <3>3, NobodyMarked
  <2>4. QED
    BY <1>5, <2>2, <2>3
<1>6. ASSUME NEW thread \in Cancellers, UnmarkSubnodes(thread)
      PROVE  PendingOK'
  <2>1. /\ ExitLayoutPending(Subnodes(Root)) /\ UNCHANGED <<supernode, canceller>>
        /\ main' = Free
    BY <1>6, <1>thread DEF UnmarkSubnodes
  <2>2. layoutPending' = {}
    BY <1>ok, <2>1, ExitEmpties
  <2>3. TreeOK'
    BY <1>ok, <2>1, <2>2, TreeFrame
  <2>4. MainOK'
    BY <1>ok, <1>free, <2>1, <2>2 DEF MainOK
  <2>5. NoStuckPending'
    BY <2>2, NoStuckPendingKept
  <2>6. QED
    BY <1>next, <2>3, <2>4, <2>5 DEF PendingOK
<1>7. QED
  BY <1>1, <1>2, <1>3, <1>4, <1>5, <1>6 DEF Next

\* Whatever tree of nodes is moved into and out of the root, and whatever is
\* started and cancelled on main, a subnode in LayoutPending waits for the
\* transition under way, if no completion block starts one on the spot.
THEOREM PendingIsNeverStuck ==
  ASSUME "background" \notin Cancellers, "transition" \notin CompletionCalls
  PROVE  Spec => []NoStuckPending
<1>1. PendingOK /\ [Next]_vars => PendingOK'
  BY NextPendingOK
<1>2. PendingOK => NoStuckPending
  BY DEF PendingOK
<1>3. QED
  BY InitPendingOK, <1>1, <1>2, PTL DEF Spec
=============================================================================
