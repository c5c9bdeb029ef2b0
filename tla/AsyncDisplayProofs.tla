-------------------------- MODULE AsyncDisplayProofs --------------------------
(***************************************************************************)
(* Proofs about AsyncDisplay, for any finite tree of nodes, any number of  *)
(* calls and of displays under way.                                        *)
(*                                                                         *)
(* A node has one display at most that its sentinel has not outdated, so   *)
(* that everything comes down to that one: what is shown is not newer than *)
(* what it draws, the nodes that wait for it are those that counted it,    *)
(* and if it draws something older than the node has become, another will  *)
(* start.                                                                  *)
(***************************************************************************)
EXTENDS AsyncDisplay, FiniteSetTheorems, WellFoundedInduction, TLAPS

\* The displays of n that still count.
Live(n) == {o \in operations : o.node = n /\ ~o.outdated}

\* What the state is made of; another thread marks only nodes it may change.
Types ==
  /\ TypeOK /\ IsFiniteSet(operations)
  /\ background.at # "idle" => background.node \in ChangedOffMain

\* At most one display of a node counts.
OneDisplay == \A n \in Nodes : \A o, p \in Live(n) : o = p

\* Display is suspended when the cell leaves the range, and only then.
RangeOK ==
  /\ suspended => ~inDisplay /\ \A n \in Nodes : Live(n) = {}
  /\ ~inDisplay /\ clears > 0 => suspended

\* Versions only grow on their way: what is shown is not newer than what is
\* being drawn, and that not newer than the contents of now.
VersionsOK ==
  /\ \A n \in Nodes : shown[n] <= content[n]
  /\ \A n \in Nodes : \A o \in Live(n) : o.parameters <= content[n]
  /\ \A n \in Nodes \ overtaken : \A o \in Live(n) : shown[n] <= o.parameters

\* A node waits for its own display and for those of its subnodes, and while
\* display is suspended for its own only.
WaitsFor(m, n) == n \in Draws /\ (m = n \/ (m = Parent[n] /\ ~suspended))
Owed(n) == Live(n) # {} \/ n \in needsDisplay \/ n \in empty \cap attemptedWhileEmpty
PendingOK ==
  /\ \A m \in Nodes : \A n \in pendingDisplay[m] :
       WaitsFor(m, n) /\ (Owed(n) \/ suspended)
  /\ \A n \in Draws \ overtaken : Live(n) # {} =>
       \A m \in {n, Parent[n]} \ {NoNode} : n \in pendingDisplay[m]

DisplaysOK == OneDisplay /\ RangeOK /\ VersionsOK /\ ClearedOutsideRange /\ PendingOK

IInv == Types /\ DisplaysOK

\* What will bring a display that is not under way yet: as WillBeShown, but a
\* thread counts until it has marked the node, no longer.
WillStart(n) ==
  \/ n \in needsDisplay \cup dirty
  \/ background.at = "changed" /\ background.node = n
  \/ n \in empty \cap attemptedWhileEmpty

\* Other threads change nodes whose layers are marked when the pending state is
\* applied.
OffMainOK ==
  /\ dirty \subseteq LayerBacked
  /\ background.node \in LayerBacked \cup {NoNode}

\* A display with older contents than those of now will be followed by another.
LiveIsNewest ==
  \A n \in Draws \ overtaken : \A o \in Live(n) :
    o.parameters = content[n] \/ WillStart(n)

NotForgotten ==
  \A n \in Draws \ overtaken :
    ~suspended => shown[n] = content[n] \/ WillStart(n) \/ Live(n) # {}

\* What a call that blocks has asked for is shown or being drawn.
AskedOK ==
  main = "blocked" => \A n \in Draws \ (overtaken \cup empty) :
    ~suspended => asked[n] <= shown[n] \/ \E o \in Live(n) : asked[n] <= o.parameters

ChangesOK == OffMainOK /\ LiveIsNewest /\ NotForgotten /\ AskedOK

-----------------------------------------------------------------------------
(* Operations and their transactions. *)

\* What every proof of a type needs of the tree.
LEMMA Tree ==
  /\ Root \in Nodes /\ NoNode \notin Nodes /\ IsFiniteSet(Nodes)
  /\ Parent \in [Nodes -> Nodes \cup {NoNode}] /\ Container \in [Nodes -> Nodes]
  /\ Draws \subseteq Nodes /\ LayerBacked \subseteq Nodes
  /\ Changed \subseteq Draws /\ ChangedOffMain \subseteq Draws
  /\ Resized \subseteq Draws /\ Immediate \subseteq Draws
  /\ MaxCalls \in Nat
  BY DisplayAssumption DEF DisplayAssumption

\* The display with the number that no other display of the container has:
\* there are fewer displays than numbers to choose from.
LEMMA FreeTransaction ==
  ASSUME IsFiniteSet(operations), operations \subseteq Operation, NEW c
  PROVE  \E t \in 1..(Cardinality(operations) + 1) :
           Of(t, c) = {} /\ \A u \in 1..(t - 1) : Of(u, c) # {}
<1> DEFINE N == Cardinality(operations) + 1
           Unused == {t \in 1..N : Of(t, c) = {}}
<1>1. N \in Nat /\ IsFiniteSet(1..N) /\ Cardinality(1..N) = N
  <2>1. Cardinality(operations) \in Nat
    BY FS_CardinalityType
  <2>2. N \in Nat /\ N >= 1
    BY <2>1
  <2>3. QED
    BY <2>2, FS_Interval
<1>2. Unused # {}
  <2> SUFFICES ASSUME Unused = {} PROVE FALSE
    OBVIOUS
  <2> DEFINE f == [t \in 1..N |-> CHOOSE o \in operations : o.transaction = t]
  <2>1. ASSUME NEW t \in 1..N PROVE f[t] \in operations /\ f[t].transaction = t
    <3>1. \E o \in operations : o.transaction = t
      BY DEF Of
    <3>2. QED
      BY <3>1
  <2>2. f \in [1..N -> operations]
    BY <2>1
  <2>3. Cardinality(operations) < Cardinality(1..N)
    BY <1>1, FS_CardinalityType
  <2> HIDE DEF f
  <2>4. \E t, u \in 1..N : t # u /\ f[t] = f[u]
    BY <1>1, <2>2, <2>3, FS_PigeonHole
  <2>5. QED
    BY <2>1, <2>4
\* The least of them: the numbers up to one are a proper subset of those up to
\* any larger one.
<1> DEFINE Below == StrictSubsetOrdering(1..N)
           Initial == {1..t : t \in Unused}
<1>3. PICK t \in Unused : \A u \in Unused : ~(<<1..u, 1..t>> \in Below)
  <2>1. IsWellFoundedOn(Below, SUBSET (1..N))
    BY <1>1, FS_StrictSubsetOrderingWellFounded, FS_FiniteSubsetsOfFinite
  <2>2. Initial \subseteq SUBSET (1..N) /\ Initial # {}
    BY <1>1, <1>2
  <2> HIDE DEF Below, Initial
  <2>3. \E x \in Initial : \A y \in Initial : ~(<<y, x>> \in Below)
    BY <2>1, <2>2, WFMin
  <2>4. QED
    BY <2>3 DEF Initial
<1>4. ASSUME NEW u \in 1..(t - 1) PROVE Of(u, c) # {}
  <2>1. u \in 1..N /\ u \in 1..t /\ t \in 1..N /\ t \notin 1..u /\ 1..u \subseteq 1..t
    BY <1>1
  <2>2. 1..u \in SUBSET (1..N) /\ 1..t \in SUBSET (1..N) /\ 1..u # 1..t
    BY <1>1, <2>1
  <2>3. <<1..u, 1..t>> \in Below
    <3>1. <<1..u, 1..t>> \in (SUBSET (1..N)) \X (SUBSET (1..N))
      BY <2>2
    <3>2. QED
      BY <2>1, <2>2, <3>1 DEF StrictSubsetOrdering
  <2>4. QED
    BY <1>3, <2>1, <2>3
<1>5. QED
  BY <1>3, <1>4

LEMMA TransactionType ==
  ASSUME TypeOK, IsFiniteSet(operations), NEW c \in Nodes
  PROVE  Transaction(c) \in Nat \ {0}
<1>1. openTransaction[c] \in Nat /\ operations \subseteq Operation
  BY DEF TypeOK
<1>2. Cardinality(operations) \in Nat
  BY FS_CardinalityType
<1>3. openTransaction[c] # 0 => Transaction(c) = openTransaction[c]
  BY DEF Transaction
<1>4. openTransaction[c] = 0 =>
        Transaction(c) \in 1..(Cardinality(operations) + 1)
  <2>1. \E t \in 1..(Cardinality(operations) + 1) :
          Of(t, c) = {} /\ \A u \in 1..(t - 1) : Of(u, c) # {}
    BY <1>1, FreeTransaction
  <2>2. QED
    BY <2>1, Zenon DEF Transaction
<1>5. QED
  BY <1>1, <1>2, <1>3, <1>4

-----------------------------------------------------------------------------
(* What the parts of the actions do to the displays. *)

LEMMA OutdatedType ==
  ASSUME Types, NEW D
  PROVE  Outdated(D) \subseteq Operation /\ IsFiniteSet(Outdated(D))
<1>1. operations \subseteq Operation /\ IsFiniteSet(operations)
  BY DEF Types, TypeOK
<1>2. Outdated(D) \subseteq Operation
  <2>1. ASSUME NEW o \in operations
        PROVE  [o EXCEPT !.outdated = TRUE, !.parameters = 0] \in Operation
    <3>1. o \in Operation /\ 0 \in Nat
      BY <1>1
    <3>2. QED
      BY <3>1 DEF Operation
  <2>2. QED
    BY <1>1, <2>1 DEF Outdated
<1> DEFINE f == [o \in operations |->
                   IF o.node \in D THEN [o EXCEPT !.outdated = TRUE, !.parameters = 0]
                   ELSE o]
           All == {f[o] : o \in operations}
<1>3. Outdated(D) \subseteq All
  <2>1. ASSUME NEW o \in operations, o.node \notin D PROVE o \in All
    <3>1. f[o] = o
      BY <2>1
    <3>2. QED
      BY <3>1
  <2>2. ASSUME NEW o \in operations, o.node \in D
        PROVE  [o EXCEPT !.outdated = TRUE, !.parameters = 0] \in All
    <3>1. f[o] = [o EXCEPT !.outdated = TRUE, !.parameters = 0]
      BY <2>2
    <3>2. QED
      BY <3>1
  <2> HIDE DEF All
  <2>3. QED
    BY <2>1, <2>2 DEF Outdated
<1>4. IsFiniteSet(All)
  <2>1. f \in Surjection(operations, All)
    BY DEF Surjection
  <2>2. QED
    BY <1>1, <2>1, FS_Surjection
<1>5. QED
  BY <1>2, <1>3, <1>4, FS_Subset

\* Cancelling the displays of D: none of them counts any more.
LEMMA OutdatedLive ==
  ASSUME Types, NEW D, operations' = Outdated(D)
  PROVE  \A n : Live(n)' = IF n \in D THEN {} ELSE Live(n)
<1>1. operations \subseteq Operation
  BY DEF Types, TypeOK
<1>2. ASSUME NEW o \in operations
      PROVE  /\ [o EXCEPT !.outdated = TRUE, !.parameters = 0].outdated
             /\ [o EXCEPT !.outdated = TRUE, !.parameters = 0].node = o.node
  BY <1>1, <1>2 DEF Operation
<1>3. ASSUME NEW n PROVE Live(n)' = IF n \in D THEN {} ELSE Live(n)
  BY <1>2 DEF Outdated, Live
<1>4. QED
  BY <1>3

LEMMA Marks ==
  ASSUME Types, NEW D \in SUBSET Nodes, SetNeedsDisplay(D)
  PROVE  /\ operations' \subseteq Operation /\ IsFiniteSet(operations')
         /\ \A n : Live(n)' = IF n \in D THEN {} ELSE Live(n)
         /\ needsDisplay' = IF suspended THEN needsDisplay ELSE needsDisplay \cup D
         /\ overtaken' = overtaken \ D
         /\ needsDisplay' \subseteq Nodes /\ overtaken' \subseteq Nodes
<1>1. operations' = Outdated(D)
  BY DEF SetNeedsDisplay, CancelAsyncDisplay
<1>2. needsDisplay \subseteq Nodes /\ overtaken \subseteq Nodes
  BY DEF Types, TypeOK
<1>3. QED
  BY <1>1, <1>2, OutdatedType, OutdatedLive DEF SetNeedsDisplay, CancelAsyncDisplay

\* The displays that displayIfNeeded starts on D.
MarkedIn(D)  == IF suspended THEN {} ELSE D \cap needsDisplay
StartedIn(D) == (MarkedIn(D) \cap Draws) \ empty
NewDisplay(n) ==
  [node |-> n, parameters |-> content[n], outdated |-> FALSE, state |-> "queued",
   transaction |-> Transaction(Container[n])]

LEMMA Displays ==
  ASSUME Types, NEW D \in SUBSET Nodes, DisplayIfNeeded(D)
  PROVE  /\ operations' \subseteq Operation /\ IsFiniteSet(operations')
         /\ \A n : Live(n)' = IF n \in StartedIn(D) THEN {NewDisplay(n)}
                              ELSE IF n \in MarkedIn(D) THEN {} ELSE Live(n)
         /\ needsDisplay' = needsDisplay \ D
         /\ attemptedWhileEmpty' = attemptedWhileEmpty \cup (MarkedIn(D) \cap empty)
         /\ overtaken' = overtaken \ MarkedIn(D)
         /\ openTransaction' \in [Nodes -> Nat]
         /\ pendingDisplay' = WillDisplay(StartedIn(D))
<1>1. /\ operations' = Outdated(MarkedIn(D)) \cup {NewDisplay(n) : n \in StartedIn(D)}
      /\ needsDisplay' = needsDisplay \ D
      /\ attemptedWhileEmpty' = attemptedWhileEmpty \cup (MarkedIn(D) \cap empty)
      /\ overtaken' = overtaken \ MarkedIn(D)
      /\ pendingDisplay' = WillDisplay(StartedIn(D))
      /\ openTransaction' =
           [c \in Nodes |-> IF \E n \in StartedIn(D) : Container[n] = c
                            THEN Transaction(c) ELSE openTransaction[c]]
  BY DEF DisplayIfNeeded, MarkedIn, StartedIn, NewDisplay
<1>2. StartedIn(D) \subseteq Nodes /\ StartedIn(D) \subseteq MarkedIn(D)
      /\ StartedIn(D) \subseteq Draws
  BY DEF StartedIn, MarkedIn
<1>3. \A c \in Nodes : Transaction(c) \in Nat \ {0}
  BY TransactionType DEF Types
<1>4. \A n \in StartedIn(D) :
        NewDisplay(n) \in Operation /\ NewDisplay(n).node = n /\ ~NewDisplay(n).outdated
  <2>1. ASSUME NEW n \in StartedIn(D) PROVE content[n] \in Nat /\ Container[n] \in Nodes
    BY <1>2, <2>1, Tree DEF Types, TypeOK
  <2>2. QED
    BY <1>2, <1>3, <2>1 DEF NewDisplay, Operation
<1>5. operations' \subseteq Operation
  BY <1>1, <1>4, OutdatedType
<1>6. IsFiniteSet(operations')
  <2>1. IsFiniteSet(StartedIn(D))
    BY <1>2, Tree, FS_Subset
  <2> DEFINE f == [n \in StartedIn(D) |-> NewDisplay(n)]
  <2>2. {NewDisplay(n) : n \in StartedIn(D)} = {f[n] : n \in StartedIn(D)}
    OBVIOUS
  <2>3. f \in Surjection(StartedIn(D), {f[n] : n \in StartedIn(D)})
    BY DEF Surjection
  <2> HIDE DEF f
  <2>4. IsFiniteSet({f[n] : n \in StartedIn(D)})
    BY <2>1, <2>3, FS_Surjection
  <2>5. QED
    BY <1>1, <2>2, <2>4, OutdatedType, FS_Union
<1>7. ASSUME NEW n
      PROVE  Live(n)' = IF n \in StartedIn(D) THEN {NewDisplay(n)}
                        ELSE IF n \in MarkedIn(D) THEN {} ELSE Live(n)
  <2>1. operations \subseteq Operation
    BY DEF Types, TypeOK
  <2>2. ASSUME NEW o \in operations
        PROVE  /\ [o EXCEPT !.outdated = TRUE, !.parameters = 0].outdated
               /\ [o EXCEPT !.outdated = TRUE, !.parameters = 0].node = o.node
    BY <2>1, <2>2 DEF Operation
  <2>3. {o \in Outdated(MarkedIn(D)) : o.node = n /\ ~o.outdated} =
          IF n \in MarkedIn(D) THEN {} ELSE Live(n)
    BY <2>2 DEF Outdated, Live
  <2>4. {o \in {NewDisplay(m) : m \in StartedIn(D)} : o.node = n /\ ~o.outdated} =
          IF n \in StartedIn(D) THEN {NewDisplay(n)} ELSE {}
    BY <1>4
  <2>5. Live(n)' = {o \in Outdated(MarkedIn(D)) : o.node = n /\ ~o.outdated} \cup
                   {o \in {NewDisplay(m) : m \in StartedIn(D)} :
                      o.node = n /\ ~o.outdated}
    BY <1>1 DEF Live
  <2>6. QED
    BY <1>2, <2>3, <2>4, <2>5
<1>8. openTransaction' \in [Nodes -> Nat]
  <2>1. openTransaction \in [Nodes -> Nat]
    BY DEF Types, TypeOK
  <2>2. QED
    BY <1>1, <1>3, <2>1
<1>9. QED
  BY <1>1, <1>5, <1>6, <1>7, <1>8

\* What n displays when the operations S complete.
LEMMA Completes ==
  ASSUME Types, OneDisplay, NEW S \in SUBSET operations, Complete(S)
  PROVE  /\ operations' \subseteq Operation /\ IsFiniteSet(operations')
         /\ \A n : Live(n)' = Live(n) \ S
         /\ shown' \in [Nodes -> Nat]
         /\ \A n \in Nodes : Live(n) \cap S = {} => shown'[n] = shown[n]
         /\ \A n \in Nodes : \A o \in Live(n) \cap S : shown'[n] = o.parameters
         /\ \A m \in Nodes : pendingDisplay'[m] = 
              {n \in pendingDisplay[m] : Live(n) \cap S = {} \/ m \notin {n, Parent[n]}}
         /\ pendingDisplay' \in [Nodes -> SUBSET Nodes]
<1> DEFINE Done == {o.node : o \in {p \in S : ~p.outdated}}
           Image(n) == (CHOOSE o \in S : o.node = n /\ ~o.outdated).parameters
<1>1. /\ shown' = [n \in Nodes |-> IF n \in Done THEN Image(n) ELSE shown[n]]
      /\ pendingDisplay' = DidDisplay(Done)
      /\ operations' = operations \ S
  BY DEF Complete
<1>2. operations \subseteq Operation /\ IsFiniteSet(operations)
      /\ shown \in [Nodes -> Nat] /\ pendingDisplay \in [Nodes -> SUBSET Nodes]
  BY DEF Types, TypeOK
<1>3. \A n : n \in Done <=> Live(n) \cap S # {}
  BY DEF Live
<1>4. ASSUME NEW n \in Nodes, NEW o \in Live(n) \cap S PROVE Image(n) = o.parameters
  <2>1. o \in S /\ o.node = n /\ ~o.outdated
    BY <1>4 DEF Live
  <2>2. PICK p \in S : p = (CHOOSE q \in S : q.node = n /\ ~q.outdated)
                       /\ p.node = n /\ ~p.outdated
    BY <2>1
  <2>3. p \in Live(n) /\ o \in Live(n)
    BY <1>4, <2>2 DEF Live
  <2>4. p = o
    BY <2>3 DEF OneDisplay
  <2>5. QED
    BY <2>2, <2>4
<1>5. \A o \in operations : o.parameters \in Nat
  BY <1>2 DEF Operation
<1>6. ASSUME NEW n PROVE Live(n)' = Live(n) \ S
  BY <1>1 DEF Live
<1> HIDE DEF Done, Image
<1>7. ASSUME NEW n \in Nodes
      PROVE  /\ Live(n) \cap S = {} => shown'[n] = shown[n]
             /\ \A o \in Live(n) \cap S : shown'[n] = o.parameters
             /\ shown'[n] \in Nat
  <2>1. \A o \in Live(n) : o.parameters \in Nat
    BY <1>5 DEF Live
  <2>2. QED
    BY <1>1, <1>2, <1>3, <1>4, <2>1
<1>8. ASSUME NEW m \in Nodes
      PROVE  pendingDisplay'[m] =
               {n \in pendingDisplay[m] : Live(n) \cap S = {} \/ m \notin {n, Parent[n]}}
  BY <1>1, <1>2, <1>3 DEF DidDisplay, Waits
<1>9. shown' \in [Nodes -> Nat]
  BY <1>1, <1>7
<1>10. pendingDisplay' \in [Nodes -> SUBSET Nodes]
  BY <1>1, <1>2 DEF DidDisplay
<1>11. operations' \subseteq Operation /\ IsFiniteSet(operations')
  BY <1>1, <1>2, FS_Subset
<1>12. QED
  BY <1>6, <1>7, <1>8, <1>9, <1>10, <1>11

\* Drawing changes the state of a display and nothing else.
LEMMA DrawEffect ==
  ASSUME Types, NEW o \in operations, Draw(o)
  PROVE  /\ operations' \subseteq Operation /\ IsFiniteSet(operations')
         /\ \A n : \A p \in Live(n)' : p \in Live(n) \/ (o \in Live(n) /\ p.parameters = o.parameters)
         /\ \A n : \A p \in Live(n) : \E q \in Live(n)' : q.parameters = p.parameters
         /\ OneDisplay => OneDisplay'
<1> DEFINE d == [o EXCEPT !.state = "drawn"]
<1>1. operations' = (operations \ {o}) \cup {d}
  BY DEF Draw
<1>2. operations \subseteq Operation /\ IsFiniteSet(operations)
  BY DEF Types, TypeOK
<1>3. d \in Operation /\ d.node = o.node /\ d.outdated = o.outdated
      /\ d.parameters = o.parameters
  BY <1>2 DEF Operation
<1> HIDE DEF d
<1>4. operations' \subseteq Operation
  BY <1>1, <1>2, <1>3
<1>5. IsFiniteSet(operations')
  <2>1. IsFiniteSet(operations \ {o})
    BY <1>2, FS_Subset
  <2>2. QED
    BY <1>1, <2>1, FS_AddElement
<1>6. ASSUME NEW n
      PROVE  /\ o \notin Live(n) => Live(n)' = Live(n)
             /\ o \in Live(n) => Live(n)' = (Live(n) \ {o}) \cup {d}
  BY <1>1, <1>3 DEF Live
<1>7. ASSUME OneDisplay PROVE OneDisplay'
  BY <1>6, <1>7 DEF OneDisplay
<1>8. QED
  BY <1>3, <1>4, <1>5, <1>6, <1>7

-----------------------------------------------------------------------------
(* Types. *)

LEMMA InitTypes == Init => Types
<1> SUFFICES ASSUME Init PROVE Types
  OBVIOUS
<1>1. content \in [Nodes -> Nat]
  BY Tree DEF Init
<1>2. IsFiniteSet(operations)
  BY FS_EmptySet DEF Init
<1>3. calls \in 0..MaxCalls
  BY Tree DEF Init
<1>4. QED
  BY <1>1, <1>2, <1>3, Tree DEF Init, Types, TypeOK

LEMMA SuspendTypes ==
  ASSUME Types, NEW flag \in BOOLEAN, SetDisplaySuspended(flag)
  PROVE  /\ operations' \subseteq Operation /\ IsFiniteSet(operations')
         /\ needsDisplay' \subseteq Nodes /\ overtaken' \subseteq Nodes
         /\ pendingDisplay' \in [Nodes -> SUBSET Nodes] /\ suspended' \in BOOLEAN
<1>1. /\ operations \subseteq Operation /\ IsFiniteSet(operations)
      /\ needsDisplay \subseteq Nodes /\ overtaken \subseteq Nodes
      /\ pendingDisplay \in [Nodes -> SUBSET Nodes] /\ suspended \in BOOLEAN
  BY DEF Types, TypeOK
<1>2. suspended' = flag
  BY DEF SetDisplaySuspended
<1>3. CASE suspended = flag
  BY <1>1, <1>2, <1>3 DEF SetDisplaySuspended
<1>4. CASE suspended # flag /\ flag
  <2>1. Suspend
    BY <1>4 DEF SetDisplaySuspended
  <2>2. pendingDisplay' \in [Nodes -> SUBSET Nodes]
    BY <1>1, <2>1 DEF Suspend
  <2>3. QED
    BY <1>1, <1>2, <2>1, <2>2, OutdatedType DEF Suspend, CancelAsyncDisplay
<1>5. CASE suspended # flag /\ ~flag
  <2>1. Resume
    BY <1>5 DEF SetDisplaySuspended
  <2>2. pendingDisplay' \in [Nodes -> SUBSET Nodes]
    BY <1>1, <2>1, Tree DEF Resume, Announced
  <2>3. QED
    BY <1>1, <1>2, <2>1, <2>2, OutdatedType DEF Resume, CancelAsyncDisplay
<1>6. QED
  BY <1>1, <1>3, <1>4, <1>5

LEMMA DisplayTypes ==
  ASSUME Types, NEW D \in SUBSET Nodes, DisplayIfNeeded(D)
  PROVE  /\ operations' \subseteq Operation /\ IsFiniteSet(operations')
         /\ needsDisplay' \subseteq Nodes /\ overtaken' \subseteq Nodes
         /\ attemptedWhileEmpty' \subseteq Nodes
         /\ openTransaction' \in [Nodes -> Nat]
         /\ pendingDisplay' \in [Nodes -> SUBSET Nodes]
<1>1. /\ needsDisplay \subseteq Nodes /\ overtaken \subseteq Nodes
      /\ attemptedWhileEmpty \subseteq Nodes /\ empty \subseteq Nodes
      /\ pendingDisplay \in [Nodes -> SUBSET Nodes]
  BY DEF Types, TypeOK
<1>2. WillDisplay(StartedIn(D)) \in [Nodes -> SUBSET Nodes]
  BY <1>1, Tree DEF WillDisplay, Waits, StartedIn
<1>3. QED
  BY <1>1, <1>2, Displays

LEMMA Arithmetic ==
  ASSUME Types
  PROVE  /\ calls < MaxCalls => calls + 1 \in 0..MaxCalls
         /\ \A n \in Nodes : content[n] \in Nat /\ content[n] + 1 \in Nat
         /\ \A n \in Nodes : [content EXCEPT ![n] = @ + 1] \in [Nodes -> Nat]
  BY Tree DEF Types, TypeOK

LEMMA CallTypes == Types /\ (Call \/ Turn) => calls' \in 0..MaxCalls
  BY Arithmetic DEF Call, Turn, Types, TypeOK

LEMMA ClientTypes ==
  ASSUME Types, NEW n \in Nodes, n \in Draws,
         Change(n) \/ SetBounds(n) \/ \E c \in BOOLEAN : DisplayImmediately(n, c)
  PROVE  Types'
<1> USE DEF Types, TypeOK
<1>1. CASE Change(n)
  <2>1. content' \in [Nodes -> Nat] /\ calls' \in 0..MaxCalls
    BY <1>1, Arithmetic, CallTypes DEF Change
  <2>2. renderQueue' \subseteq Nodes
    BY <1>1 DEF Change, Schedule
  <2>3. SetNeedsDisplay({n}) /\ {n} \in SUBSET Nodes
    BY <1>1 DEF Change
  <2>4. /\ operations' \subseteq Operation /\ IsFiniteSet(operations')
        /\ needsDisplay' \subseteq Nodes /\ overtaken' \subseteq Nodes
    BY <2>3, Marks
  <2>5. QED
    BY <1>1, <2>1, <2>2, <2>4 DEF Change, boundVars, rangeVars
<1>2. CASE SetBounds(n)
  <2>1. calls' \in 0..MaxCalls
    BY <1>2, CallTypes DEF SetBounds
  <2>2. /\ operations' \subseteq Operation /\ IsFiniteSet(operations')
        /\ needsDisplay' \subseteq Nodes /\ overtaken' \subseteq Nodes
    <3>1. SetNeedsDisplay({n}) \/ UNCHANGED <<operations, needsDisplay, overtaken>>
      BY <1>2 DEF SetBounds
    <3>2. CASE SetNeedsDisplay({n})
      BY <3>2, Marks
    <3>3. QED
      BY <3>1, <3>2
  <2>3. empty' \subseteq Nodes /\ attemptedWhileEmpty' \subseteq Nodes
    BY <1>2 DEF SetBounds
  <2>4. QED
    BY <1>2, <2>1, <2>2, <2>3 DEF SetBounds, rangeVars, queueVars
<1>3. ASSUME NEW c \in BOOLEAN, DisplayImmediately(n, c) PROVE Types'
  <2>1. calls' \in 0..MaxCalls
    BY <1>3, CallTypes DEF DisplayImmediately
  <2>2. content' \in [Nodes -> Nat]
    BY <1>3, Arithmetic DEF DisplayImmediately
  <2>3. shown' \in [Nodes -> Nat]
    BY <1>3, <2>2 DEF DisplayImmediately
  <2>4. pendingDisplay' \in [Nodes -> SUBSET Nodes]
    BY <1>3 DEF DisplayImmediately, DidDisplay
  <2>5. /\ attemptedWhileEmpty' \subseteq Nodes
        /\ onTheSpot' \subseteq Nodes /\ overtaken' \subseteq Nodes
    BY <1>3 DEF DisplayImmediately, noteVars
  <2>6. QED
    BY <1>3, <2>1, <2>2, <2>3, <2>4, <2>5
       DEF DisplayImmediately, rangeVars, queueVars
<1>4. QED
  BY <1>1, <1>2, <1>3

LEMMA RangeTypes ==
  ASSUME Types,
         EnterHierarchy \/ ExitHierarchy \/ EnterDisplay \/ ExitDisplay
  PROVE  Types'
<1> USE DEF Types, TypeOK
<1>1. calls' \in 0..MaxCalls
  BY CallTypes DEF EnterHierarchy, ExitHierarchy, EnterDisplay, ExitDisplay
<1>2. CASE EnterHierarchy
  <2>1. SetNeedsDisplay({n \in Nodes : shown[n] = 0})
    BY <1>2 DEF EnterHierarchy
  <2>2. /\ operations' \subseteq Operation /\ IsFiniteSet(operations')
        /\ needsDisplay' \subseteq Nodes /\ overtaken' \subseteq Nodes
    BY <2>1, Marks
  <2>3. QED
    BY <1>1, <1>2, <2>2 DEF EnterHierarchy, boundVars, queueVars
<1>3. CASE ExitHierarchy
  BY <1>1, <1>3 DEF ExitHierarchy, drawVars, boundVars, queueVars, noteVars
<1>4. CASE EnterDisplay
  <2>1. SetDisplaySuspended(FALSE) /\ inDisplay' = TRUE
    BY <1>4 DEF EnterDisplay
  <2>2. /\ operations' \subseteq Operation /\ IsFiniteSet(operations')
        /\ needsDisplay' \subseteq Nodes /\ overtaken' \subseteq Nodes
        /\ pendingDisplay' \in [Nodes -> SUBSET Nodes] /\ suspended' \in BOOLEAN
    BY <2>1, SuspendTypes
  <2>3. renderQueue' \subseteq Nodes
    BY <1>4, Tree DEF EnterDisplay
  <2>4. QED
    BY <1>1, <1>4, <2>1, <2>2, <2>3 DEF EnterDisplay, boundVars
<1>5. CASE ExitDisplay
  <2>1. SetDisplaySuspended(TRUE) /\ inDisplay' = FALSE /\ clears' = clears + 1
    BY <1>5, Zenon DEF ExitDisplay
  <2>2. /\ operations' \subseteq Operation /\ IsFiniteSet(operations')
        /\ needsDisplay' \subseteq Nodes /\ overtaken' \subseteq Nodes
        /\ pendingDisplay' \in [Nodes -> SUBSET Nodes] /\ suspended' \in BOOLEAN
    BY <2>1, SuspendTypes
  <2>3. clears' \in Nat
    BY <2>1
  <2>4. inDisplay' \in BOOLEAN
    BY <2>1
  <2>5. QED
    BY <1>1, <1>5, <2>2, <2>3, <2>4 DEF ExitDisplay, boundVars, queueVars
<1>6. QED
  BY <1>2, <1>3, <1>4, <1>5

LEMMA StartTypes ==
  ASSUME Types,
         EnsureDisplay \/ CommitLayers \/ \E n \in Nodes : DisplayScheduled(n)
  PROVE  Types'
<1> USE DEF Types, TypeOK
<1>1. calls' \in 0..MaxCalls
  BY CallTypes DEF EnsureDisplay, CommitLayers, DisplayScheduled
<1>2. CASE EnsureDisplay
  <2>1. DisplayIfNeeded(Draws) /\ Draws \in SUBSET Nodes
    BY <1>2, Tree DEF EnsureDisplay
  <2>2. asked' \in [Nodes -> Nat] /\ main' \in {"free", "blocked"}
    BY <1>2 DEF EnsureDisplay
  <2>3. QED
    BY <1>1, <1>2, <2>1, <2>2, DisplayTypes
       DEF EnsureDisplay, rangeVars, queueVars
<1>3. CASE CommitLayers
  <2>1. DisplayIfNeeded(Nodes)
    BY <1>3 DEF CommitLayers
  <2>2. QED
    BY <1>1, <1>3, <2>1, DisplayTypes DEF CommitLayers, rangeVars, queueVars
<1>4. ASSUME NEW n \in Nodes, DisplayScheduled(n) PROVE Types'
  <2>1. DisplayIfNeeded(Subtree(n) \cap Draws) /\ Subtree(n) \cap Draws \in SUBSET Nodes
    BY <1>4, Tree DEF DisplayScheduled
  <2>2. renderQueue' \subseteq Nodes
    BY <1>4 DEF DisplayScheduled
  <2>3. QED
    BY <1>1, <1>4, <2>1, <2>2, DisplayTypes DEF DisplayScheduled, rangeVars
<1>5. QED
  BY <1>2, <1>3, <1>4

LEMMA TurnTypes ==
  ASSUME Types, OneDisplay,
         \/ DisplayEnsured \/ CommitTransactions \/ ClearContents \/ Flush
         \/ \E o \in operations :
              CompleteTransaction(o.transaction, Container[o.node])
  PROVE  Types'
<1> USE DEF Types, TypeOK
<1>1. CASE DisplayEnsured
  <2>1. Complete(operations) /\ operations \in SUBSET operations
    BY <1>1 DEF DisplayEnsured
  <2>2. /\ openTransaction' \in [Nodes -> Nat] /\ asked' \in [Nodes -> Nat]
        /\ main' \in {"free", "blocked"}
    BY <1>1 DEF DisplayEnsured
  <2>3. QED
    BY <1>1, <2>1, <2>2, Completes
       DEF DisplayEnsured, boundVars, rangeVars, queueVars, noteVars
<1>2. CASE CommitTransactions
  BY <1>2, CallTypes
     DEF CommitTransactions, drawVars, boundVars, rangeVars, queueVars, noteVars
<1>3. CASE ClearContents
  <2>1. clears' \in Nat /\ shown' \in [Nodes -> Nat] /\ onTheSpot' \subseteq Nodes
    BY <1>3 DEF ClearContents
  <2>2. QED
    BY <1>3, <2>1, CallTypes DEF ClearContents, boundVars, queueVars
<1>4. CASE Flush
  <2>1. SetNeedsDisplay(dirty \cap LayerBacked) /\ dirty \cap LayerBacked \in SUBSET Nodes
        /\ dirty' = {}
    BY <1>4 DEF Flush
  <2>2. /\ operations' \subseteq Operation /\ IsFiniteSet(operations')
        /\ needsDisplay' \subseteq Nodes /\ overtaken' \subseteq Nodes
    BY <2>1, Marks
  <2>3. QED
    BY <1>4, <2>1, <2>2, CallTypes DEF Flush, boundVars, rangeVars
<1>5. ASSUME NEW o \in operations,
             CompleteTransaction(o.transaction, Container[o.node])
      PROVE  Types'
  <2> DEFINE S == Of(o.transaction, Container[o.node])
  <2>1. Complete(S) /\ S \in SUBSET operations
    BY <1>5 DEF CompleteTransaction, Of
  <2> HIDE DEF S
  <2>2. QED
    BY <1>5, <2>1, Completes, CallTypes
       DEF CompleteTransaction, boundVars, rangeVars, queueVars, noteVars
<1>6. QED
  BY <1>1, <1>2, <1>3, <1>4, <1>5

LEMMA OffMainTypes ==
  ASSUME Types,
         \/ \E o \in operations : Draw(o)
         \/ \E n \in ChangedOffMain : ChangeOffMain(n)
         \/ MarkPending \/ ScheduleOffMain
  PROVE  Types'
<1> USE DEF Types, TypeOK, rangeVars, boundVars
<1>1. ASSUME NEW o \in operations, Draw(o) PROVE Types'
  BY <1>1, DrawEffect DEF Draw, drawVars, queueVars, noteVars
<1>2. ASSUME NEW n \in ChangedOffMain, ChangeOffMain(n) PROVE Types'
  <2>1. n \in Nodes
    BY Tree
  <2>2. content' \in [Nodes -> Nat] /\ calls' \in 0..MaxCalls
    BY <1>2, <2>1, Arithmetic DEF ChangeOffMain
  <2>3. QED
    BY <1>2, <2>1, <2>2 DEF ChangeOffMain, offMainUnchanged, noteVars
<1>3. CASE MarkPending
  <2>1. background' = [background EXCEPT !.at = "marked"] /\ background.node \in Nodes
        /\ background.node \in ChangedOffMain
    BY <1>3, Tree DEF MarkPending
  <2>2. /\ dirty' \subseteq Nodes /\ background'.node \in ChangedOffMain
        /\ background' \in [at : {"idle", "changed", "marked"}, node : Nodes \cup {NoNode}]
    BY <1>3, <2>1 DEF MarkPending
  <2>3. QED
    BY <1>3, <2>2 DEF MarkPending, offMainUnchanged, noteVars
<1>4. CASE ScheduleOffMain
  <2>1. background.node \in Nodes
    BY <1>4, Tree DEF ScheduleOffMain
  <2>2. renderQueue' \subseteq Nodes
    BY <1>4, <2>1 DEF ScheduleOffMain, Schedule
  <2>3. background' = [at |-> "idle", node |-> NoNode]
    BY <1>4 DEF ScheduleOffMain
  <2>4. QED
    BY <1>4, <2>2, <2>3 DEF ScheduleOffMain, offMainUnchanged, noteVars
<1>5. QED
  BY <1>1, <1>2, <1>3, <1>4

LEMMA NextTypes == Types /\ OneDisplay /\ [Next]_vars => Types'
<1> SUFFICES ASSUME Types, OneDisplay, [Next]_vars PROVE Types'
  OBVIOUS
<1>1. CASE UNCHANGED vars
  BY <1>1 DEF vars, drawVars, boundVars, rangeVars, queueVars, noteVars, Types, TypeOK
<1>2. QED
  BY <1>1, Tree, ClientTypes, RangeTypes, StartTypes, TurnTypes, OffMainTypes DEF Next

-----------------------------------------------------------------------------
(* The displays that count, whatever starts, cancels and completes them. *)

LEMMA LiveTypes ==
  ASSUME Types
  PROVE  /\ \A n : \A o \in Live(n) : o.parameters \in Nat
         /\ \A n \in Nodes : content[n] \in Nat /\ shown[n] \in Nat
         /\ pendingDisplay \in [Nodes -> SUBSET Nodes] /\ shown \in [Nodes -> Nat]
         /\ suspended \in BOOLEAN /\ inDisplay \in BOOLEAN /\ clears \in Nat
  BY DEF Types, TypeOK, Live, Operation

LEMMA PendingOKIsExact == PendingOK => PendingIsExact
  BY Tree DEF PendingOK, PendingIsExact, Owed, WaitsFor, IsUnderWay, Live

LEMMA InitDisplaysOK == Init => DisplaysOK
  BY Tree DEF Init, DisplaysOK, OneDisplay, RangeOK, VersionsOK, ClearedOutsideRange,
              PendingOK, Live

\* The displays of D are cancelled, and marked unless display is suspended: D may
\* be empty, and contents may become newer.
LEMMA CancelledOK ==
  ASSUME IInv, Types', NEW D,
         \A n : Live(n)' = IF n \in D THEN {} ELSE Live(n),
         \A n \in Nodes : content[n] <= content'[n],
         \A n \in D : suspended \/ n \in needsDisplay',
         needsDisplay \subseteq needsDisplay',
         \A n \in empty \cap attemptedWhileEmpty :
           n \in D \/ n \in empty' \cap attemptedWhileEmpty',
         overtaken' = overtaken \ D,
         UNCHANGED <<shown, pendingDisplay, suspended, inDisplay, clears, onTheSpot>>
  PROVE  DisplaysOK'
<1> USE DEF IInv, DisplaysOK
<1>1. OneDisplay'
  BY DEF OneDisplay
<1>2. RangeOK'
  BY DEF RangeOK
<1>3. VersionsOK'
  <2>1. \A n \in Nodes : \A o \in Live(n) :
          o.parameters \in Nat /\ content[n] \in Nat /\ content'[n] \in Nat
    BY LiveTypes DEF Types, TypeOK
  <2>2. \A n \in Nodes : shown[n] \in Nat /\ content[n] \in Nat /\ content'[n] \in Nat
    BY LiveTypes DEF Types, TypeOK
  <2>3. \A n \in Nodes : shown'[n] <= content'[n]
    BY <2>2 DEF VersionsOK
  <2>4. \A n \in Nodes : \A o \in Live(n)' : o.parameters <= content'[n]
    BY <2>1 DEF VersionsOK
  <2>5. \A n \in Nodes \ overtaken' : \A o \in Live(n)' : shown'[n] <= o.parameters
    BY DEF VersionsOK
  <2>6. QED
    BY <2>3, <2>4, <2>5 DEF VersionsOK
<1>4. ClearedOutsideRange'
  BY DEF ClearedOutsideRange
<1>5. PendingOK'
  BY DEF PendingOK, WaitsFor, Owed
<1>6. QED
  BY <1>1, <1>2, <1>3, <1>4, <1>5

LEMMA DrawOK ==
  ASSUME IInv, NEW o \in operations, Draw(o)
  PROVE  DisplaysOK'
<1>1. UNCHANGED <<drawVars, openTransaction, boundVars, pendingDisplay,
                 rangeVars, queueVars, main, asked, noteVars, calls>>
  BY DEF Draw
<1> USE DEF IInv, DisplaysOK
<1>2. /\ \A n : \A p \in Live(n)' :
           p \in Live(n) \/ (o \in Live(n) /\ p.parameters = o.parameters)
      /\ \A n : \A p \in Live(n) : \E q \in Live(n)' : q.parameters = p.parameters
      /\ OneDisplay'
  BY DrawEffect
<1>3. \A n : Live(n)' = {} <=> Live(n) = {}
  BY <1>2
<1> USE DEF drawVars, boundVars, rangeVars, noteVars
<1>4. RangeOK'
  BY <1>1, <1>3 DEF RangeOK
<1>5. VersionsOK'
  BY <1>1, <1>2 DEF VersionsOK
<1>6. ClearedOutsideRange'
  BY <1>1 DEF ClearedOutsideRange
<1>7. PendingOK'
  BY <1>1, <1>3 DEF PendingOK, WaitsFor, Owed
<1>8. QED
  BY <1>2, <1>4, <1>5, <1>6, <1>7

\* Displays that are started, of what is displayed now.
LEMMA StartedOK ==
  ASSUME IInv, Types', NEW D \in SUBSET Nodes, DisplayIfNeeded(D),
         UNCHANGED <<content, shown, empty, suspended, inDisplay, clears, onTheSpot>>
  PROVE  DisplaysOK'
<1> USE DEF IInv, DisplaysOK
<1>1. /\ \A n : Live(n)' = IF n \in StartedIn(D) THEN {NewDisplay(n)}
                           ELSE IF n \in MarkedIn(D) THEN {} ELSE Live(n)
      /\ needsDisplay' = needsDisplay \ D
      /\ attemptedWhileEmpty' = attemptedWhileEmpty \cup (MarkedIn(D) \cap empty)
      /\ overtaken' = overtaken \ MarkedIn(D)
      /\ pendingDisplay' = WillDisplay(StartedIn(D))
  BY Displays
<1>2. \A n : NewDisplay(n).parameters = content[n]
  BY DEF NewDisplay
<1>3. suspended => StartedIn(D) = {} /\ MarkedIn(D) = {}
  BY DEF StartedIn, MarkedIn
<1>4. ~suspended => MarkedIn(D) = D \cap needsDisplay
  BY DEF MarkedIn
<1>5. StartedIn(D) = (MarkedIn(D) \cap Draws) \ empty /\ StartedIn(D) \subseteq Nodes
  BY DEF StartedIn, MarkedIn
<1>6. OneDisplay'
  BY <1>1 DEF OneDisplay
<1>7. RangeOK'
  BY <1>1, <1>3 DEF RangeOK
<1>8. VersionsOK'
  <2>1. \A n \in Nodes : shown[n] <= content[n] /\ content[n] <= content[n]
    BY LiveTypes DEF VersionsOK
  <2>2. ASSUME NEW n \in Nodes, NEW o \in Live(n)'
        PROVE  o.parameters <= content[n] /\ (n \notin overtaken' => shown[n] <= o.parameters)
    <3>1. CASE n \in StartedIn(D)
      BY <1>1, <1>2, <2>1, <2>2, <3>1
    <3>2. CASE n \notin StartedIn(D)
      <4>1. o \in Live(n) /\ n \notin MarkedIn(D)
        BY <1>1, <2>2, <3>2
      <4>2. QED
        BY <1>1, <4>1 DEF VersionsOK
    <3>3. QED
      BY <3>1, <3>2
  <2>3. QED
    BY <2>1, <2>2 DEF VersionsOK
<1>9. ClearedOutsideRange'
  BY DEF ClearedOutsideRange
<1>10. PendingOK'
  <2>1. \A m \in Nodes : \A n :
          n \in pendingDisplay'[m] <=>
            n \in pendingDisplay[m] \/ (n \in StartedIn(D) /\ m \in {n, Parent[n]})
    BY <1>1 DEF WillDisplay, Waits
  <2>2. ASSUME NEW m \in Nodes, NEW n \in pendingDisplay'[m]
        PROVE  WaitsFor(m, n)'
    BY <1>3, <1>5, <2>1, <2>2 DEF PendingOK, WaitsFor
  <2>3. ASSUME NEW m \in Nodes, NEW n \in pendingDisplay'[m], ~suspended
        PROVE  Owed(n)'
    <3>1. n \in Draws
      BY <2>2, <2>3 DEF WaitsFor
    <3>2. CASE n \in MarkedIn(D)
      BY <1>1, <1>5, <3>1, <3>2 DEF Owed
    <3>3. CASE n \notin MarkedIn(D)
      <4>1. n \in pendingDisplay[m] /\ n \notin StartedIn(D)
        BY <1>5, <2>1, <2>3, <3>3
      <4>2. Owed(n)
        BY <2>3, <4>1 DEF PendingOK
      <4>3. QED
        BY <1>1, <1>4, <2>3, <3>3, <4>1, <4>2 DEF Owed
    <3>4. QED
      BY <3>2, <3>3
  <2>4. ASSUME NEW n \in Draws \ overtaken', Live(n)' # {},
               NEW m \in {n, Parent[n]} \ {NoNode}
        PROVE  n \in pendingDisplay'[m]
    <3>1. m \in Nodes /\ n \in Nodes
      BY <2>4, Tree
    <3>2. CASE n \in StartedIn(D)
      BY <2>1, <2>4, <3>1, <3>2
    <3>3. CASE n \notin StartedIn(D)
      <4>1. n \notin MarkedIn(D) /\ Live(n) # {} /\ n \notin overtaken
        BY <1>1, <2>4, <3>3
      <4>2. QED
        BY <2>1, <2>4, <3>1, <4>1 DEF PendingOK
    <3>4. QED
      BY <3>2, <3>3
  <2>5. QED
    BY <2>2, <2>3, <2>4 DEF PendingOK
<1>11. QED
  BY <1>6, <1>7, <1>8, <1>9, <1>10

\* Displays that complete: each that counts brings its contents.
LEMMA CompletedOK ==
  ASSUME IInv, Types', NEW S \in SUBSET operations, Complete(S),
         UNCHANGED <<content, needsDisplay, boundVars, rangeVars, noteVars>>
  PROVE  DisplaysOK'
<1> USE DEF IInv, DisplaysOK, boundVars, rangeVars, noteVars
<1>1. /\ \A n : Live(n)' = Live(n) \ S
      /\ \A n \in Nodes : Live(n) \cap S = {} => shown'[n] = shown[n]
      /\ \A n \in Nodes : \A o \in Live(n) \cap S : shown'[n] = o.parameters
      /\ \A m \in Nodes : pendingDisplay'[m] = 
           {n \in pendingDisplay[m] : Live(n) \cap S = {} \/ m \notin {n, Parent[n]}}
  BY Completes
<1>2. OneDisplay'
  BY <1>1 DEF OneDisplay
<1>3. RangeOK'
  BY <1>1 DEF RangeOK
<1>4. \A n \in Nodes : \/ Live(n)' = Live(n) /\ Live(n) \cap S = {} /\ shown'[n] = shown[n]
                       \/ /\ Live(n)' = {} /\ Live(n) \cap S # {}
                          /\ \E o \in Live(n) : shown'[n] = o.parameters
  <2>1. ASSUME NEW n \in Nodes, NEW o \in Live(n) \cap S
        PROVE  Live(n)' = {} /\ shown'[n] = o.parameters
    BY <1>1, <2>1 DEF OneDisplay
  <2>2. ASSUME NEW n \in Nodes, Live(n) \cap S = {}
        PROVE  Live(n)' = Live(n) /\ shown'[n] = shown[n]
    BY <1>1, <2>2
  <2>3. QED
    BY <2>1, <2>2
<1>5. VersionsOK'
  BY <1>4 DEF VersionsOK
<1>6. ClearedOutsideRange'
  BY <1>4 DEF ClearedOutsideRange, RangeOK
<1>7. PendingOK'
  <2>1. ASSUME NEW m \in Nodes, NEW n \in pendingDisplay'[m]
        PROVE  WaitsFor(m, n)' /\ (Owed(n) \/ suspended)'
    <3>1. /\ n \in pendingDisplay[m] /\ n \in Nodes
          /\ Live(n) \cap S = {} \/ m \notin {n, Parent[n]}
      BY <1>1, <2>1, LiveTypes
    <3>2. WaitsFor(m, n) /\ (Owed(n) \/ suspended)
      BY <3>1 DEF PendingOK
    <3>3. Live(n)' = Live(n)
      BY <1>4, <3>1, <3>2 DEF WaitsFor
    <3>4. QED
      BY <3>2, <3>3 DEF WaitsFor, Owed
  <2>2. ASSUME NEW n \in Draws \ overtaken', Live(n)' # {},
               NEW m \in {n, Parent[n]} \ {NoNode}
        PROVE  n \in pendingDisplay'[m]
    <3>1. m \in Nodes /\ n \in Nodes
      BY <2>2, Tree
    <3>2. Live(n) \cap S = {} /\ Live(n) # {}
      BY <1>4, <2>2, <3>1
    <3>3. n \in pendingDisplay[m]
      BY <2>2, <3>2 DEF PendingOK
    <3>4. QED
      BY <1>1, <3>1, <3>2, <3>3
  <2>3. QED
    BY <2>1, <2>2 DEF PendingOK
<1>8. QED
  BY <1>2, <1>3, <1>5, <1>6, <1>7

-----------------------------------------------------------------------------
(* The calls that do something of their own. *)

LEMMA ImmediateOK ==
  ASSUME IInv, Types', NEW n \in Draws, NEW c \in BOOLEAN, DisplayImmediately(n, c)
  PROVE  DisplaysOK'
<1> USE DEF IInv, DisplaysOK
<1>1. n \in Nodes
  BY Tree
<1>2. /\ UNCHANGED <<needsDisplay, operations, empty, suspended, inDisplay, clears>>
      /\ \A m \in Nodes : content'[m] = IF m = n /\ c THEN content[m] + 1 ELSE content[m]
  BY LiveTypes, <1>1 DEF DisplayImmediately, rangeVars, Types, TypeOK
<1>3. \A m : Live(m)' = Live(m)
  BY <1>2 DEF Live
<1>4. \A m \in Nodes : content[m] <= content'[m] /\ content'[m] \in Nat
  BY <1>2, LiveTypes
<1>5. OneDisplay' /\ RangeOK'
  BY <1>2, <1>3 DEF OneDisplay, RangeOK
<1>6. CASE n \in empty
  <2>1. /\ attemptedWhileEmpty' = attemptedWhileEmpty \cup {n}
        /\ UNCHANGED <<shown, pendingDisplay, overtaken, onTheSpot>>
    BY <1>6 DEF DisplayImmediately, noteVars
  <2>2. VersionsOK'
    <3>1. \A m \in Nodes : \A o \in Live(m) : o.parameters <= content'[m]
      <4>1. \A m \in Nodes : \A o \in Live(m) :
              /\ o.parameters \in Nat /\ content[m] \in Nat /\ o.parameters <= content[m]
        BY LiveTypes DEF VersionsOK
      <4>2. QED
        BY <1>4, <4>1
    <3>2. \A m \in Nodes : shown[m] <= content'[m]
      <4>1. \A m \in Nodes : shown[m] \in Nat /\ content[m] \in Nat /\ shown[m] <= content[m]
        BY LiveTypes DEF VersionsOK
      <4>2. QED
        BY <1>4, <4>1
    <3>3. QED
      BY <1>3, <2>1, <3>1, <3>2 DEF VersionsOK
  <2>3. ClearedOutsideRange' /\ PendingOK'
    BY <1>2, <1>3, <2>1 DEF ClearedOutsideRange, PendingOK, WaitsFor, Owed
  <2>4. QED
    BY <1>5, <2>2, <2>3
<1>7. CASE n \notin empty
  <2>1. /\ shown' = [shown EXCEPT ![n] = content'[n]]
        /\ pendingDisplay' = DidDisplay({n})
        /\ onTheSpot' = onTheSpot \cup {n}
        /\ overtaken' = overtaken \cup (IF IsUnderWay(n) THEN {n} ELSE {})
        /\ attemptedWhileEmpty' = attemptedWhileEmpty
    BY <1>7 DEF DisplayImmediately
  <2>2. \A m \in Nodes : shown'[m] = IF m = n THEN content'[n] ELSE shown[m]
    BY <2>1, LiveTypes
  <2>3. n \notin overtaken' => Live(n) = {}
    BY <2>1 DEF IsUnderWay, Live
  <2>4. VersionsOK'
    <3>1. \A m \in Nodes : \A o \in Live(m) : o.parameters <= content'[m]
      <4>1. \A m \in Nodes : \A o \in Live(m) :
              /\ o.parameters \in Nat /\ content[m] \in Nat /\ o.parameters <= content[m]
        BY LiveTypes DEF VersionsOK
      <4>2. QED
        BY <1>4, <4>1
    <3>2. \A m \in Nodes : shown'[m] <= content'[m]
      <4>1. \A m \in Nodes : shown[m] \in Nat /\ content[m] \in Nat /\ shown[m] <= content[m]
        BY LiveTypes DEF VersionsOK
      <4>2. QED
        BY <1>4, <2>2, <4>1
    <3>3. ASSUME NEW m \in Nodes \ overtaken', NEW o \in Live(m)
          PROVE  shown'[m] <= o.parameters
      BY <2>1, <2>2, <2>3, <3>3 DEF VersionsOK
    <3>4. QED
      BY <1>3, <3>1, <3>2, <3>3 DEF VersionsOK
  <2>5. ClearedOutsideRange'
    BY <1>2, <2>1, <2>2 DEF ClearedOutsideRange
  <2>6. \A m \in Nodes : pendingDisplay'[m] =
          {k \in pendingDisplay[m] : k # n \/ m \notin {n, Parent[n]}}
    BY <2>1 DEF DidDisplay, Waits
  <2>7. PendingOK'
    <3>1. ASSUME NEW m \in Nodes, NEW k \in pendingDisplay'[m]
          PROVE  WaitsFor(m, k)' /\ (Owed(k) \/ suspended)'
      <4>1. k \in pendingDisplay[m]
        BY <2>6, <3>1
      <4>2. QED
        BY <1>2, <1>3, <2>1, <4>1 DEF PendingOK, WaitsFor, Owed
    <3>2. ASSUME NEW k \in Draws \ overtaken', Live(k)' # {},
                 NEW m \in {k, Parent[k]} \ {NoNode}
          PROVE  k \in pendingDisplay'[m]
      <4>1. k # n /\ k \notin overtaken /\ Live(k) # {}
        BY <1>3, <2>1, <2>3, <3>2
      <4>2. m \in Nodes /\ k \in pendingDisplay[m]
        BY <3>2, <4>1, Tree DEF PendingOK
      <4>3. QED
        BY <2>6, <4>1, <4>2
    <3>3. QED
      BY <3>1, <3>2 DEF PendingOK
  <2>8. QED
    BY <1>5, <2>4, <2>5, <2>7
<1>8. QED
  BY <1>6, <1>7

\* While the cell is in the range, display is not suspended.
LEMMA EnterDisplayOK ==
  ASSUME IInv, Types', EnterDisplay
  PROVE  DisplaysOK'
<1> USE DEF IInv, DisplaysOK
<1>1. /\ ~inDisplay /\ inDisplay' = TRUE /\ suspended' = FALSE
      /\ UNCHANGED <<content, shown, boundVars, clears, onTheSpot>>
  BY DEF EnterDisplay, SetDisplaySuspended
<1>2. CASE suspended = FALSE
  <2>1. UNCHANGED <<operations, overtaken, needsDisplay, pendingDisplay>>
    BY <1>2 DEF EnterDisplay, SetDisplaySuspended
  <2>2. \A n : Live(n)' = Live(n)
    BY <2>1 DEF Live
  <2>3. OneDisplay' /\ RangeOK' /\ VersionsOK' /\ ClearedOutsideRange'
    BY <1>1, <2>1, <2>2 DEF OneDisplay, RangeOK, VersionsOK, ClearedOutsideRange
  <2>4. PendingOK'
    BY <1>1, <1>2, <2>1, <2>2 DEF PendingOK, WaitsFor, Owed, boundVars
  <2>5. QED
    BY <2>3, <2>4
<1>3. CASE suspended # FALSE
  <2>1. Resume
    BY <1>3, LiveTypes DEF EnterDisplay, SetDisplaySuspended
  <2>2. /\ operations' = Outdated(Nodes) /\ overtaken' = overtaken \ Nodes
        /\ needsDisplay' = Nodes
        /\ pendingDisplay' = [n \in Nodes |-> pendingDisplay[n] \cup Announced(n)]
    BY <2>1 DEF Resume, CancelAsyncDisplay
  <2>3. \A n \in Nodes : Live(n)' = {}
    BY <2>2, OutdatedLive
  <2>4. OneDisplay' /\ RangeOK' /\ VersionsOK' /\ ClearedOutsideRange'
    BY <1>1, <2>3 DEF OneDisplay, RangeOK, VersionsOK, ClearedOutsideRange
  <2>5. PendingOK'
    <3>1. ASSUME NEW m \in Nodes, NEW n \in pendingDisplay'[m]
          PROVE  WaitsFor(m, n)' /\ Owed(n)'
      <4>1. n \in pendingDisplay[m] \/ n \in Announced(m)
        BY <2>2, <3>1
      <4>2. n \in Draws /\ (m = n \/ m = Parent[n])
        BY <4>1 DEF PendingOK, WaitsFor, Announced
      <4>3. QED
        BY <1>1, <2>2, <4>2, Tree DEF WaitsFor, Owed
    <3>2. QED
      BY <2>3, <3>1, Tree DEF PendingOK
  <2>6. QED
    BY <2>4, <2>5
<1>4. QED
  BY <1>2, <1>3

LEMMA ExitDisplayOK ==
  ASSUME IInv, Types', ExitDisplay
  PROVE  DisplaysOK'
<1> USE DEF IInv, DisplaysOK
<1>1. /\ inDisplay /\ inDisplay' = FALSE /\ suspended' = TRUE
      /\ clears' = clears + 1
      /\ UNCHANGED <<content, shown, boundVars, onTheSpot>>
  BY Zenon DEF ExitDisplay, SetDisplaySuspended
<1>2. suspended = FALSE
  BY <1>1, LiveTypes DEF RangeOK
<1>3. Suspend
  BY <1>2 DEF ExitDisplay, SetDisplaySuspended
<1>4. /\ operations' = Outdated(Nodes)
      /\ pendingDisplay' = [n \in Nodes |-> pendingDisplay[n] \ Announced(n)]
  BY <1>3 DEF Suspend, CancelAsyncDisplay
<1>5. \A n \in Nodes : Live(n)' = {}
  BY <1>4, OutdatedLive
<1>6. OneDisplay' /\ RangeOK' /\ VersionsOK'
  BY <1>1, <1>5 DEF OneDisplay, RangeOK, VersionsOK
<1>7. ClearedOutsideRange'
  <2>1. clears' # 0
    BY <1>1, LiveTypes
  <2>2. QED
    BY <2>1 DEF ClearedOutsideRange
<1>8. PendingOK'
  <2>1. ASSUME NEW m \in Nodes, NEW n \in pendingDisplay'[m]
        PROVE  WaitsFor(m, n)'
    <3>1. n \in pendingDisplay[m] /\ n \notin Announced(m)
      BY <1>4, <2>1
    <3>2. n \in Draws /\ m = n
      BY <3>1 DEF PendingOK, WaitsFor, Announced
    <3>3. QED
      BY <3>2 DEF WaitsFor
  <2>2. QED
    BY <1>1, <1>5, <2>1, Tree DEF PendingOK
<1>9. QED
  BY <1>6, <1>7, <1>8

LEMMA ClearContentsOK ==
  ASSUME IInv, Types', ClearContents
  PROVE  DisplaysOK'
<1> USE DEF IInv, DisplaysOK
<1>1. /\ clears > 0 /\ clears' = clears - 1
      /\ UNCHANGED <<content, needsDisplay, operations, boundVars, pendingDisplay,
                     inDisplay, suspended, overtaken>>
  BY DEF ClearContents
<1>2. \A n : Live(n)' = Live(n)
  BY <1>1 DEF Live
<1>3. OneDisplay' /\ PendingOK'
  BY <1>1, <1>2 DEF OneDisplay, PendingOK, WaitsFor, Owed, boundVars
<1>4. RangeOK'
  BY <1>1, <1>2, LiveTypes DEF RangeOK
<1>5. CASE inDisplay
  <2>1. shown' = shown /\ onTheSpot' = onTheSpot
    BY <1>5 DEF ClearContents
  <2>2. ClearedOutsideRange'
    BY <1>1, <1>5 DEF ClearedOutsideRange, RangeOK
  <2>3. VersionsOK'
    BY <1>1, <1>2, <2>1 DEF VersionsOK
  <2>4. QED
    BY <1>3, <1>4, <2>2, <2>3
<1>6. CASE ~inDisplay
  <2>1. shown' = [n \in Nodes |-> 0]
    BY <1>6 DEF ClearContents
  <2>2. suspended /\ \A n \in Nodes : Live(n) = {}
    BY <1>1, <1>6 DEF RangeOK
  <2>3. VersionsOK'
    BY <1>1, <1>2, <2>1, <2>2, LiveTypes DEF VersionsOK
  <2>4. ClearedOutsideRange'
    BY <2>1 DEF ClearedOutsideRange
  <2>5. QED
    BY <1>3, <1>4, <2>3, <2>4
<1>7. QED
  BY <1>5, <1>6

\* Steps that cancel, or touch no display.
LEMMA QuietOK ==
  ASSUME IInv, Types',
         \/ \E n \in Changed : Change(n)
         \/ \E n \in Resized : SetBounds(n)
         \/ EnterHierarchy \/ ExitHierarchy \/ CommitTransactions \/ Flush
         \/ \E n \in ChangedOffMain : ChangeOffMain(n)
         \/ MarkPending \/ ScheduleOffMain \/ UNCHANGED vars
  PROVE  DisplaysOK'
<1> USE DEF IInv
<1>same. \A n \in Nodes : content[n] <= content[n] /\ content[n] <= content[n] + 1
  BY LiveTypes
<1>quiet. ASSUME UNCHANGED <<operations, shown, pendingDisplay, suspended, inDisplay, clears,
                             onTheSpot, needsDisplay, overtaken>>,
                 \A n \in Nodes : content[n] <= content'[n],
                 \A n \in empty \cap attemptedWhileEmpty : n \in empty' \cap attemptedWhileEmpty'
          PROVE  DisplaysOK'
  <2> DEFINE D == {}
  <2>1. /\ \A n : Live(n)' = IF n \in D THEN {} ELSE Live(n)
        /\ overtaken' = overtaken \ D
        /\ \A n \in D : suspended \/ n \in needsDisplay'
        /\ needsDisplay \subseteq needsDisplay'
        /\ \A n \in empty \cap attemptedWhileEmpty :
             n \in D \/ n \in empty' \cap attemptedWhileEmpty'
    BY <1>quiet DEF Live
  <2>2. UNCHANGED <<shown, pendingDisplay, suspended, inDisplay, clears, onTheSpot>>
    BY <1>quiet
  <2> HIDE DEF D, IInv
  <2>3. QED
    BY <1>quiet, <2>1, <2>2, CancelledOK
<1>marks. ASSUME NEW D \in SUBSET Nodes, SetNeedsDisplay(D),
                 UNCHANGED <<shown, pendingDisplay, suspended, inDisplay, clears, onTheSpot>>,
                 \A n \in Nodes : content[n] <= content'[n],
                 \A n \in empty \cap attemptedWhileEmpty :
                   n \in D \/ n \in empty' \cap attemptedWhileEmpty'
          PROVE  DisplaysOK'
  <2>1. /\ \A n : Live(n)' = IF n \in D THEN {} ELSE Live(n)
        /\ needsDisplay' = IF suspended THEN needsDisplay ELSE needsDisplay \cup D
        /\ overtaken' = overtaken \ D
    BY <1>marks, Marks
  <2>2. (\A n \in D : suspended \/ n \in needsDisplay') /\ needsDisplay \subseteq needsDisplay'
    BY <2>1
  <2>3. QED
    BY <1>marks, <2>1, <2>2, CancelledOK
<1>1. ASSUME NEW n \in Changed, Change(n) PROVE DisplaysOK'
  <2>1. {n} \in SUBSET Nodes /\ n \in Nodes
    BY Tree
  <2>2. SetNeedsDisplay({n}) /\ content' = [content EXCEPT ![n] = @ + 1]
        /\ UNCHANGED <<shown, pendingDisplay, boundVars, rangeVars, onTheSpot>>
    BY <1>1 DEF Change
  <2>3. \A m \in Nodes : content[m] <= content'[m]
    BY <1>same, <2>1, <2>2 DEF Types, TypeOK
  <2>4. QED
    BY <1>marks, <2>1, <2>2, <2>3 DEF boundVars, rangeVars
<1>2. ASSUME NEW n \in Resized, SetBounds(n) PROVE DisplaysOK'
  <2>1. {n} \in SUBSET Nodes
    BY Tree
  <2>2. UNCHANGED <<content, shown, pendingDisplay, suspended, inDisplay, clears, onTheSpot>>
    BY <1>2 DEF SetBounds, rangeVars
  <2>3. CASE n \in empty /\ n \in attemptedWhileEmpty
    <3>1. SetNeedsDisplay({n}) /\ empty' = empty \ {n}
          /\ attemptedWhileEmpty' = attemptedWhileEmpty \ {n}
      BY <1>2, <2>3 DEF SetBounds
    <3>2. QED
      BY <1>marks, <1>same, <2>1, <2>2, <3>1
  <2>4. CASE ~(n \in empty /\ n \in attemptedWhileEmpty)
    <3>1. UNCHANGED <<operations, needsDisplay, overtaken>>
      BY <1>2, <2>4 DEF SetBounds
    <3>2. \A m \in empty \cap attemptedWhileEmpty : m \in empty' \cap attemptedWhileEmpty'
      BY <1>2, <2>4 DEF SetBounds
    <3>3. QED
      BY <1>quiet, <1>same, <2>2, <3>1, <3>2
  <2>5. QED
    BY <2>3, <2>4
<1>3. CASE EnterHierarchy
  <2> DEFINE D == {n \in Nodes : shown[n] = 0}
  <2>1. SetNeedsDisplay(D) /\ D \in SUBSET Nodes
        /\ UNCHANGED <<content, shown, boundVars, pendingDisplay, inDisplay, suspended, clears,
                       onTheSpot>>
    BY <1>3 DEF EnterHierarchy
  <2> HIDE DEF D
  <2>2. QED
    BY <1>marks, <1>same, <2>1 DEF boundVars
<1>4. CASE ExitHierarchy
  BY <1>4, <1>quiet, <1>same DEF ExitHierarchy, drawVars, boundVars, noteVars
<1>5. CASE CommitTransactions
  BY <1>5, <1>quiet, <1>same DEF CommitTransactions, drawVars, boundVars, rangeVars, noteVars
<1>6. CASE Flush
  <2>1. SetNeedsDisplay(dirty \cap LayerBacked) /\ dirty \cap LayerBacked \in SUBSET Nodes
        /\ UNCHANGED <<content, shown, boundVars, pendingDisplay, rangeVars, onTheSpot>>
    BY <1>6, Tree DEF Flush
  <2>2. QED
    BY <1>marks, <1>same, <2>1 DEF boundVars, rangeVars
<1>7. ASSUME NEW n \in ChangedOffMain, ChangeOffMain(n) PROVE DisplaysOK'
  <2>1. n \in Nodes
    BY Tree
  <2>2. content' = [content EXCEPT ![n] = @ + 1]
    BY <1>7 DEF ChangeOffMain
  <2>3. \A m \in Nodes : content[m] <= content'[m]
    BY <1>same, <2>1, <2>2 DEF Types, TypeOK
  <2>4. QED
    BY <1>7, <1>quiet, <2>3
       DEF ChangeOffMain, offMainUnchanged, boundVars, rangeVars, noteVars
<1>8. CASE MarkPending \/ ScheduleOffMain
  BY <1>8, <1>quiet, <1>same
     DEF MarkPending, ScheduleOffMain, offMainUnchanged, boundVars, rangeVars, noteVars
<1>9. CASE UNCHANGED vars
  BY <1>9, <1>quiet, <1>same DEF vars, drawVars, boundVars, rangeVars, noteVars
<1>10. QED
  BY <1>1, <1>2, <1>3, <1>4, <1>5, <1>6, <1>7, <1>8, <1>9

LEMMA NextIInv == IInv /\ [Next]_vars => IInv'
<1> SUFFICES ASSUME IInv, [Next]_vars PROVE IInv'
  OBVIOUS
<1>1. Types'
  BY NextTypes DEF IInv, DisplaysOK
<1> SUFFICES DisplaysOK'
  BY <1>1 DEF IInv
<1>2. ASSUME NEW n \in Immediate, NEW c \in BOOLEAN, DisplayImmediately(n, c)
      PROVE  DisplaysOK'
  BY <1>1, <1>2, Tree, ImmediateOK
<1>3. CASE EnsureDisplay \/ CommitLayers \/ \E n \in Nodes : DisplayScheduled(n)
  <2>1. UNCHANGED <<content, shown, empty, suspended, inDisplay, clears, onTheSpot>>
    BY <1>3 DEF EnsureDisplay, CommitLayers, DisplayScheduled, rangeVars
  <2>2. ASSUME NEW D \in SUBSET Nodes, DisplayIfNeeded(D) PROVE DisplaysOK'
    BY <1>1, <2>1, <2>2, StartedOK
  <2>3. ASSUME NEW n \in Nodes, DisplayScheduled(n) PROVE DisplaysOK'
    <3>1. DisplayIfNeeded(Subtree(n) \cap Draws) /\ Subtree(n) \cap Draws \in SUBSET Nodes
      BY <2>3, Tree DEF DisplayScheduled
    <3>2. QED
      BY <2>2, <3>1
  <2>4. CASE EnsureDisplay
    <3>1. DisplayIfNeeded(Draws) /\ Draws \in SUBSET Nodes
      BY <2>4, Tree DEF EnsureDisplay
    <3>2. QED
      BY <2>2, <3>1
  <2>5. CASE CommitLayers
    <3>1. DisplayIfNeeded(Nodes)
      BY <2>5 DEF CommitLayers
    <3>2. QED
      BY <2>2, <3>1
  <2>6. QED
    BY <1>3, <2>3, <2>4, <2>5
<1>complete. ASSUME NEW S \in SUBSET operations, Complete(S),
                    UNCHANGED <<content, needsDisplay, boundVars, rangeVars, noteVars>>
             PROVE  DisplaysOK'
  BY <1>1, <1>complete, CompletedOK
<1>4. CASE DisplayEnsured
  <2>1. Complete(operations) /\ operations \in SUBSET operations
        /\ UNCHANGED <<content, needsDisplay, boundVars, rangeVars, noteVars>>
    BY <1>4 DEF DisplayEnsured
  <2>2. QED
    BY <1>complete, <2>1
<1>5. ASSUME NEW o \in operations, CompleteTransaction(o.transaction, Container[o.node])
      PROVE  DisplaysOK'
  <2> DEFINE S == Of(o.transaction, Container[o.node])
  <2>1. Complete(S) /\ S \in SUBSET operations
        /\ UNCHANGED <<content, needsDisplay, boundVars, rangeVars, noteVars>>
    BY <1>5 DEF CompleteTransaction, Of
  <2> HIDE DEF S
  <2>2. QED
    BY <1>1, <2>1, CompletedOK
<1>6. ASSUME NEW o \in operations, Draw(o) PROVE DisplaysOK'
  BY <1>6, DrawOK
<1>7. QED
  BY <1>1, <1>2, <1>3, <1>4, <1>5, <1>6, QuietOK, EnterDisplayOK, ExitDisplayOK,
     ClearContentsOK DEF Next

-----------------------------------------------------------------------------
(* What follows for every cell. *)

\* Contents change by a display on the spot, by completions and by clearing.
LEMMA NeverOlder ==
  ASSUME IInv, [Next]_vars, NEW n \in Draws \ overtaken, shown'[n] < shown[n]
  PROVE  shown'[n] = 0 /\ ~inDisplay
<1>1. n \in Nodes /\ shown[n] \in Nat /\ content[n] \in Nat /\ shown[n] <= content[n]
  BY Tree, LiveTypes DEF IInv, DisplaysOK, VersionsOK
<1>2. ASSUME NEW k \in Immediate, NEW c \in BOOLEAN, DisplayImmediately(k, c)
      PROVE  FALSE
  <2>1. content'[n] \in Nat /\ content[n] <= content'[n]
    BY <1>1, <1>2 DEF DisplayImmediately, IInv, Types, TypeOK
  <2>2. shown'[n] = shown[n] \/ shown'[n] = content'[n]
    BY <1>1, <1>2 DEF DisplayImmediately, IInv, Types, TypeOK
  <2>3. QED
    BY <1>1, <2>1, <2>2
<1>3. ASSUME NEW S \in SUBSET operations, Complete(S) PROVE FALSE
  <2>1. /\ Live(n) \cap S = {} => shown'[n] = shown[n]
        /\ \A o \in Live(n) \cap S : shown'[n] = o.parameters
    BY <1>1, <1>3, Completes DEF IInv, DisplaysOK
  <2>2. ASSUME NEW o \in Live(n) PROVE shown[n] <= o.parameters /\ o.parameters \in Nat
    BY <1>1, <2>2, LiveTypes DEF IInv, DisplaysOK, VersionsOK
  <2>3. QED
    BY <1>1, <2>1, <2>2
<1>4. CASE ClearContents
  BY <1>1, <1>4 DEF ClearContents
<1>5. ASSUME shown' = shown PROVE FALSE
  BY <1>1, <1>5
<1>6. CASE DisplayEnsured
  BY <1>3, <1>6 DEF DisplayEnsured
<1>7. ASSUME NEW o \in operations, CompleteTransaction(o.transaction, Container[o.node])
      PROVE  FALSE
  BY <1>3, <1>7 DEF CompleteTransaction, Of
<1>8. CASE \/ \E k \in Changed : Change(k)
           \/ \E k \in Resized : SetBounds(k)
           \/ EnterHierarchy \/ ExitHierarchy \/ EnterDisplay \/ ExitDisplay
           \/ EnsureDisplay \/ CommitLayers \/ CommitTransactions \/ Flush
  BY <1>5, <1>8 DEF Change, SetBounds, EnterHierarchy, ExitHierarchy, EnterDisplay,
     ExitDisplay, EnsureDisplay, CommitLayers, CommitTransactions, Flush, drawVars
<1>9. CASE \/ \E k \in Nodes : DisplayScheduled(k)
           \/ \E o \in operations : Draw(o)
           \/ \E k \in ChangedOffMain : ChangeOffMain(k)
           \/ MarkPending \/ ScheduleOffMain \/ UNCHANGED vars
  BY <1>5, <1>9 DEF DisplayScheduled, Draw, ChangeOffMain, MarkPending,
     ScheduleOffMain, offMainUnchanged, drawVars, vars
<1>10. QED
  BY <1>2, <1>4, <1>6, <1>7, <1>8, <1>9 DEF Next

\* The displays of a cell, whichever threads ask for them: one counts at most for
\* each node, versions do not go back, and the placeholder is told of all.
THEOREM Invariance == Spec => []IInv
<1>1. Init => IInv
  BY InitTypes, InitDisplaysOK DEF IInv
<1>2. QED
  BY <1>1, NextIInv, PTL DEF Spec

\* Outside the display range nothing is left on a layer, whatever displays were
\* under way when the cell left it.
THEOREM AlwaysClearedOutsideRange == Spec => []ClearedOutsideRange
<1>1. IInv => ClearedOutsideRange
  BY DEF IInv, DisplaysOK
<1>2. QED
  BY <1>1, Invariance, PTL

\* A node that waits for displays waits for those that will end, and for all that
\* are under way.
THEOREM PendingIsAlwaysExact == Spec => []PendingIsExact
<1>1. IInv => PendingIsExact
  BY PendingOKIsExact DEF IInv, DisplaysOK
<1>2. QED
  BY <1>1, Invariance, PTL

\* What a layer shows is replaced by something newer, or cleared outside the
\* range, in whatever order transactions complete.
THEOREM ContentsGoForward == Spec => ContentsNeverRegress
<1>1. IInv /\ [Next]_vars =>
        [\A n \in Draws \ overtaken :
           shown'[n] < shown[n] => shown'[n] = 0 /\ ~inDisplay]_vars
  BY NeverOlder
<1>2. QED
  BY <1>1, Invariance, PTL DEF Spec, ContentsNeverRegress

-----------------------------------------------------------------------------
(* Changes are displayed, if other threads change layer-backed nodes only. *)

LayersOffMain == ChangedOffMain \subseteq LayerBacked

LEMMA NewestTypes ==
  ASSUME IInv
  PROVE  /\ \A n \in Draws : n \in Nodes
         /\ NoNode \notin Nodes
         /\ suspended => \A n \in Nodes : Live(n) = {}
  BY Tree DEF IInv, DisplaysOK, RangeOK

LEMMA NextOffMainOK ==
  ASSUME LayersOffMain, Types, OffMainOK, [Next]_vars
  PROVE  OffMainOK'
<1> USE DEF OffMainOK
<1>1. ASSUME UNCHANGED <<dirty, background>> PROVE OffMainOK'
  BY <1>1
<1>2. CASE \/ \E k \in Changed : Change(k)
           \/ \E k \in Resized : SetBounds(k)
           \/ \E k \in Immediate, c \in BOOLEAN : DisplayImmediately(k, c)
           \/ EnterHierarchy \/ ExitHierarchy \/ EnterDisplay \/ ExitDisplay
           \/ EnsureDisplay \/ DisplayEnsured \/ CommitLayers
  BY <1>1, <1>2 DEF Change, SetBounds, DisplayImmediately, EnterHierarchy,
     ExitHierarchy, EnterDisplay, ExitDisplay, EnsureDisplay, DisplayEnsured,
     CommitLayers, queueVars
<1>3. CASE \/ CommitTransactions \/ ClearContents
           \/ \E k \in Nodes : DisplayScheduled(k)
           \/ \E o \in operations : CompleteTransaction(o.transaction, Container[o.node])
           \/ \E o \in operations : Draw(o)
           \/ UNCHANGED vars
  BY <1>1, <1>3 DEF CommitTransactions, ClearContents, DisplayScheduled,
     CompleteTransaction, Draw, vars, queueVars
<1>4. CASE Flush
  BY <1>4 DEF Flush
<1>5. ASSUME NEW n \in ChangedOffMain, ChangeOffMain(n) PROVE OffMainOK'
  BY <1>5 DEF ChangeOffMain, LayersOffMain
<1>6. CASE MarkPending
  <2>1. background.node \in LayerBacked /\ dirty' = dirty \cup {background.node}
    BY <1>6 DEF MarkPending, Types, LayersOffMain
  <2>2. background'.node = background.node
    BY <1>6 DEF MarkPending, Types, TypeOK
  <2>3. QED
    BY <2>1, <2>2
<1>7. CASE ScheduleOffMain
  BY <1>7 DEF ScheduleOffMain
<1>8. QED
  BY <1>2, <1>3, <1>4, <1>5, <1>6, <1>7 DEF Next

LEMMA InitChangesOK == Init => ChangesOK
  BY Tree DEF Init, ChangesOK, OffMainOK, LiveIsNewest, NotForgotten, AskedOK, WillStart,
              Live

\* The displays of D are cancelled, and marked unless display is suspended; what
\* changes has something that will bring it.
LEMMA CancelledNewest ==
  ASSUME IInv, LiveIsNewest, NotForgotten, NEW D,
         \A n : Live(n)' = IF n \in D THEN {} ELSE Live(n),
         \A n \in Draws : content'[n] = content[n] \/ WillStart(n)',
         \A n \in D : suspended \/ n \in needsDisplay',
         \A n \in Draws : WillStart(n) => n \in D \/ WillStart(n)',
         overtaken' = overtaken \ D,
         UNCHANGED <<shown, suspended>>
  PROVE  LiveIsNewest' /\ NotForgotten'
<1>1. \A n \in D : suspended \/ WillStart(n)'
  BY DEF WillStart
<1>2. LiveIsNewest'
  BY DEF LiveIsNewest
<1>3. NotForgotten'
  <2> SUFFICES ASSUME NEW n \in Draws \ overtaken', ~suspended'
               PROVE  shown'[n] = content'[n] \/ WillStart(n)' \/ Live(n)' # {}
    BY DEF NotForgotten
  <2>1. CASE n \in D
    BY <1>1, <2>1
  <2>2. CASE n \notin D
    BY <2>2 DEF NotForgotten
  <2>3. QED
    BY <2>1, <2>2
<1>4. QED
  BY <1>2, <1>3

LEMMA QuietNewest ==
  ASSUME LayersOffMain, IInv, OffMainOK, LiveIsNewest, NotForgotten,
         \/ \E n \in Changed : Change(n)
         \/ \E n \in Resized : SetBounds(n)
         \/ EnterHierarchy \/ ExitHierarchy \/ CommitTransactions \/ Flush
         \/ \E n \in ChangedOffMain : ChangeOffMain(n)
         \/ MarkPending \/ ScheduleOffMain \/ UNCHANGED vars
  PROVE  LiveIsNewest' /\ NotForgotten'
<1>types. Types /\ content \in [Nodes -> Nat]
  BY DEF IInv, Types, TypeOK
<1>quiet. ASSUME UNCHANGED <<operations, shown, suspended, overtaken>>,
                 \A n \in Draws : content'[n] = content[n] \/ WillStart(n)',
                 \A n \in Draws : WillStart(n) => WillStart(n)'
          PROVE  LiveIsNewest' /\ NotForgotten'
  <2> DEFINE D == {}
  <2>1. /\ \A n : Live(n)' = IF n \in D THEN {} ELSE Live(n)
        /\ overtaken' = overtaken \ D
        /\ \A n \in D : suspended \/ n \in needsDisplay'
        /\ \A n \in Draws : WillStart(n) => n \in D \/ WillStart(n)'
    BY <1>quiet DEF Live
  <2>2. UNCHANGED <<shown, suspended>>
    BY <1>quiet
  <2> HIDE DEF D
  <2>3. QED
    BY <1>quiet, <2>1, <2>2, CancelledNewest
<1>marks. ASSUME NEW D \in SUBSET Nodes, SetNeedsDisplay(D), UNCHANGED <<shown, suspended>>,
                 \A n \in Draws : content'[n] = content[n] \/ WillStart(n)',
                 \A n \in Draws : WillStart(n) => n \in D \/ WillStart(n)'
          PROVE  LiveIsNewest' /\ NotForgotten'
  <2>1. /\ \A n : Live(n)' = IF n \in D THEN {} ELSE Live(n)
        /\ \A n \in D : suspended \/ n \in needsDisplay'
        /\ overtaken' = overtaken \ D
    BY <1>types, <1>marks, Marks
  <2>2. QED
    BY <1>marks, <2>1, CancelledNewest
<1>1. ASSUME NEW n \in Changed, Change(n) PROVE LiveIsNewest' /\ NotForgotten'
  <2>1. {n} \in SUBSET Nodes /\ n \in Nodes
    BY Tree
  <2>2. SetNeedsDisplay({n}) /\ content' = [content EXCEPT ![n] = @ + 1]
        /\ UNCHANGED <<shown, boundVars, suspended, dirty, background>>
    BY <1>1 DEF Change, rangeVars
  <2>3. /\ \A m : Live(m)' = IF m \in {n} THEN {} ELSE Live(m)
        /\ needsDisplay' = IF suspended THEN needsDisplay ELSE needsDisplay \cup {n}
        /\ overtaken' = overtaken \ {n}
    BY <1>types, <2>1, <2>2, Marks
  <2>4. \A m \in Draws : WillStart(m) => WillStart(m)'
    BY <2>2, <2>3 DEF WillStart, boundVars
  <2>5. \A m \in Draws : m # n => content'[m] = content[m]
    BY <1>types, <2>1, <2>2, Tree
  <2>6. CASE suspended
    BY <2>2, <2>3, <2>6, NewestTypes DEF LiveIsNewest, NotForgotten
  <2>7. CASE ~suspended
    <3>1. WillStart(n)'
      BY <2>3, <2>7 DEF WillStart
    <3>2. QED
      BY <1>marks, <2>1, <2>2, <2>4, <2>5, <3>1
  <2>8. QED
    BY <2>6, <2>7
<1>2. ASSUME NEW n \in Resized, SetBounds(n) PROVE LiveIsNewest' /\ NotForgotten'
  <2>1. {n} \in SUBSET Nodes
    BY Tree
  <2>2. UNCHANGED <<content, shown, suspended, dirty, background>>
    BY <1>2 DEF SetBounds, rangeVars, queueVars
  <2>3. CASE n \in empty /\ n \in attemptedWhileEmpty
    <3>1. SetNeedsDisplay({n}) /\ empty' = empty \ {n}
          /\ attemptedWhileEmpty' = attemptedWhileEmpty \ {n}
      BY <1>2, <2>3 DEF SetBounds
    <3>2. needsDisplay \subseteq needsDisplay'
      BY <1>types, <2>1, <3>1, Marks
    <3>3. \A m \in Draws : WillStart(m) => m \in {n} \/ WillStart(m)'
      BY <2>2, <3>1, <3>2 DEF WillStart
    <3>4. QED
      BY <1>marks, <2>1, <2>2, <3>1, <3>3
  <2>4. CASE ~(n \in empty /\ n \in attemptedWhileEmpty)
    <3>1. UNCHANGED <<operations, needsDisplay, overtaken>>
      BY <1>2, <2>4 DEF SetBounds
    <3>2. \A m \in empty \cap attemptedWhileEmpty : m \in empty' \cap attemptedWhileEmpty'
      BY <1>2, <2>4 DEF SetBounds
    <3>3. \A m \in Draws : WillStart(m) => WillStart(m)'
      BY <2>2, <3>1, <3>2 DEF WillStart
    <3>4. QED
      BY <1>quiet, <2>2, <3>1, <3>3
  <2>5. QED
    BY <2>3, <2>4
<1>3. CASE EnterHierarchy
  <2> DEFINE D == {n \in Nodes : shown[n] = 0}
  <2>1. SetNeedsDisplay(D) /\ D \in SUBSET Nodes
        /\ UNCHANGED <<content, shown, boundVars, suspended, dirty, background>>
    BY <1>3 DEF EnterHierarchy, queueVars
  <2> HIDE DEF D
  <2>2. needsDisplay \subseteq needsDisplay'
    BY <1>types, <2>1, Marks
  <2>3. \A m \in Draws : WillStart(m) => WillStart(m)'
    BY <2>1, <2>2 DEF WillStart, boundVars
  <2>4. QED
    BY <1>marks, <2>1, <2>3
<1>4. CASE ExitHierarchy \/ CommitTransactions \/ UNCHANGED vars
  <2>1. UNCHANGED <<content, operations, shown, suspended, overtaken, needsDisplay, dirty,
                    background, empty, attemptedWhileEmpty>>
    BY <1>4 DEF ExitHierarchy, CommitTransactions, vars, drawVars, boundVars, rangeVars,
                queueVars, noteVars
  <2>2. \A m \in Draws : WillStart(m) => WillStart(m)'
    BY <2>1 DEF WillStart
  <2>3. QED
    BY <1>quiet, <2>1, <2>2
<1>5. CASE Flush
  <2>1. dirty \cap LayerBacked = dirty /\ dirty \in SUBSET Nodes
    BY <1>types DEF OffMainOK, Types, TypeOK
  <2>2. SetNeedsDisplay(dirty)
        /\ UNCHANGED <<content, shown, boundVars, suspended, background>>
    BY <1>5, <2>1 DEF Flush, rangeVars
  <2>3. needsDisplay \subseteq needsDisplay'
    BY <1>types, <2>1, <2>2, Marks
  <2>4. \A m \in Draws : WillStart(m) => m \in dirty \/ WillStart(m)'
    BY <2>2, <2>3 DEF WillStart, boundVars
  <2>5. QED
    BY <1>marks, <2>1, <2>2, <2>4
<1>6. ASSUME NEW n \in ChangedOffMain, ChangeOffMain(n)
      PROVE  LiveIsNewest' /\ NotForgotten'
  <2>1. n \in Nodes
    BY Tree
  <2>2. /\ background.at = "idle" /\ background' = [at |-> "changed", node |-> n]
        /\ content' = [content EXCEPT ![n] = @ + 1]
        /\ UNCHANGED <<operations, shown, suspended, overtaken, needsDisplay, dirty,
                       empty, attemptedWhileEmpty>>
    BY <1>6 DEF ChangeOffMain, offMainUnchanged, boundVars, rangeVars, noteVars
  <2>3. \A m \in Draws : WillStart(m) => WillStart(m)'
    BY <2>2 DEF WillStart
  <2>4. \A m \in Draws : content'[m] = content[m] \/ WillStart(m)'
    <3>1. WillStart(n)'
      BY <2>2 DEF WillStart
    <3>2. \A m \in Draws : m # n => content'[m] = content[m]
      BY <1>types, <2>1, <2>2, Tree
    <3>3. QED
      BY <3>1, <3>2
  <2>5. QED
    BY <1>quiet, <2>2, <2>3, <2>4
<1>7. CASE MarkPending
  <2>1. /\ dirty' = dirty \cup {background.node}
        /\ UNCHANGED <<content, operations, shown, suspended, overtaken, needsDisplay,
                       empty, attemptedWhileEmpty>>
    BY <1>7 DEF MarkPending, offMainUnchanged, boundVars, rangeVars, noteVars
  <2>2. \A m \in Draws : WillStart(m) => WillStart(m)'
    BY <2>1 DEF WillStart
  <2>3. QED
    BY <1>quiet, <2>1, <2>2
<1>8. CASE ScheduleOffMain
  <2>1. /\ background.at = "marked"
        /\ UNCHANGED <<content, operations, shown, suspended, overtaken, needsDisplay,
                       dirty, empty, attemptedWhileEmpty>>
    BY <1>8 DEF ScheduleOffMain, offMainUnchanged, boundVars, rangeVars, noteVars
  <2>2. \A m \in Draws : WillStart(m) => WillStart(m)'
    BY <2>1 DEF WillStart
  <2>3. QED
    BY <1>quiet, <2>1, <2>2
<1>9. QED
  BY <1>1, <1>2, <1>3, <1>4, <1>5, <1>6, <1>7, <1>8

\* Displays that are started draw the newest contents.
LEMMA StartedNewest ==
  ASSUME IInv, LiveIsNewest, NotForgotten, NEW D \in SUBSET Nodes, DisplayIfNeeded(D),
         UNCHANGED <<content, shown, empty, suspended, dirty, background>>
  PROVE  LiveIsNewest' /\ NotForgotten'
<1>1. /\ \A n : Live(n)' = IF n \in StartedIn(D) THEN {NewDisplay(n)}
                           ELSE IF n \in MarkedIn(D) THEN {} ELSE Live(n)
      /\ needsDisplay' = needsDisplay \ D
      /\ attemptedWhileEmpty' = attemptedWhileEmpty \cup (MarkedIn(D) \cap empty)
      /\ overtaken' = overtaken \ MarkedIn(D)
  BY Displays DEF IInv
<1>2. \A n : NewDisplay(n).parameters = content[n]
  BY DEF NewDisplay
<1>3. /\ StartedIn(D) = (MarkedIn(D) \cap Draws) \ empty
      /\ ~suspended => MarkedIn(D) = D \cap needsDisplay
      /\ suspended => MarkedIn(D) = {} /\ \A n \in Nodes : Live(n) = {}
  BY NewestTypes DEF StartedIn, MarkedIn
<1>4. \A n \in Draws : n \notin MarkedIn(D) /\ ~suspended /\ WillStart(n) => WillStart(n)'
  BY <1>1, <1>3 DEF WillStart
<1>5. ASSUME NEW n \in Draws \ overtaken', NEW o \in Live(n)'
      PROVE  o.parameters = content'[n] \/ WillStart(n)'
  <2>1. CASE n \in StartedIn(D)
    BY <1>1, <1>2, <1>5, <2>1
  <2>2. CASE n \notin StartedIn(D)
    <3>1. o \in Live(n) /\ n \notin MarkedIn(D) /\ n \notin overtaken
      BY <1>1, <1>5, <2>2
    <3>2. ~suspended
      BY <1>3, <3>1, Tree
    <3>3. o.parameters = content[n] \/ WillStart(n)
      BY <3>1 DEF LiveIsNewest
    <3>4. QED
      BY <1>4, <3>1, <3>2, <3>3
  <2>3. QED
    BY <2>1, <2>2
<1>6. ASSUME NEW n \in Draws \ overtaken', ~suspended
      PROVE  shown'[n] = content'[n] \/ WillStart(n)' \/ Live(n)' # {}
  <2>1. CASE n \in StartedIn(D)
    BY <1>1, <2>1
  <2>2. CASE n \in MarkedIn(D) /\ n \notin StartedIn(D)
    BY <1>1, <1>3, <1>6, <2>2 DEF WillStart
  <2>3. CASE n \notin MarkedIn(D)
    <3>1. n \notin StartedIn(D) /\ n \notin overtaken
      BY <1>1, <1>3, <2>3
    <3>2. shown[n] = content[n] \/ WillStart(n) \/ Live(n) # {}
      BY <1>6, <3>1 DEF NotForgotten
    <3>3. QED
      BY <1>1, <1>4, <1>6, <2>3, <3>1, <3>2
  <2>4. QED
    BY <2>1, <2>2, <2>3
<1>7. QED
  BY <1>5, <1>6 DEF LiveIsNewest, NotForgotten

LEMMA CompletedNewest ==
  ASSUME IInv, LiveIsNewest, NotForgotten, NEW S \in SUBSET operations, Complete(S),
         UNCHANGED <<content, needsDisplay, empty, attemptedWhileEmpty, suspended, dirty,
                     background, overtaken>>
  PROVE  LiveIsNewest' /\ NotForgotten'
<1>1. /\ \A n : Live(n)' = Live(n) \ S
      /\ \A n \in Nodes : Live(n) \cap S = {} => shown'[n] = shown[n]
      /\ \A n \in Nodes : \A o \in Live(n) \cap S : shown'[n] = o.parameters
  BY Completes DEF IInv, DisplaysOK
<1>2. \A n : WillStart(n)' = WillStart(n)
  BY DEF WillStart
<1>3. LiveIsNewest'
  BY <1>1, <1>2 DEF LiveIsNewest
<1>4. ASSUME NEW n \in Draws \ overtaken, ~suspended
      PROVE  shown'[n] = content[n] \/ WillStart(n) \/ Live(n)' # {}
  <2>1. CASE Live(n) \cap S = {}
    <3>1. shown'[n] = shown[n] /\ Live(n)' = Live(n)
      BY <1>1, <2>1, Tree
    <3>2. QED
      BY <1>4, <3>1 DEF NotForgotten
  <2>2. ASSUME NEW o \in Live(n) \cap S
        PROVE  shown'[n] = content[n] \/ WillStart(n)
    BY <1>1, <1>4, <2>2, Tree DEF LiveIsNewest
  <2>3. QED
    BY <2>1, <2>2
<1>5. QED
  BY <1>2, <1>3, <1>4 DEF NotForgotten

LEMMA DrawNewest ==
  ASSUME IInv, LiveIsNewest, NotForgotten, NEW o \in operations, Draw(o)
  PROVE  LiveIsNewest' /\ NotForgotten'
<1>1. /\ \A n : \A p \in Live(n)' :
           p \in Live(n) \/ (o \in Live(n) /\ p.parameters = o.parameters)
      /\ \A n : \A p \in Live(n) : \E q \in Live(n)' : q.parameters = p.parameters
  BY DrawEffect DEF IInv
<1>2. UNCHANGED <<content, shown, needsDisplay, empty, attemptedWhileEmpty, suspended,
                  dirty, background, overtaken>>
  BY DEF Draw, drawVars, boundVars, rangeVars, queueVars, noteVars
<1>3. \A n : WillStart(n)' = WillStart(n)
  BY <1>2 DEF WillStart
<1>4. \A n : Live(n) # {} => Live(n)' # {}
  BY <1>1
<1>5. LiveIsNewest'
  BY <1>1, <1>2, <1>3 DEF LiveIsNewest
<1>6. NotForgotten'
  BY <1>2, <1>3, <1>4 DEF NotForgotten
<1>7. QED
  BY <1>5, <1>6

LEMMA ImmediateNewest ==
  ASSUME IInv, LiveIsNewest, NotForgotten,
         NEW n \in Draws, NEW c \in BOOLEAN, DisplayImmediately(n, c)
  PROVE  LiveIsNewest' /\ NotForgotten'
<1>1. n \in Nodes /\ Draws \subseteq Nodes
  BY Tree
<1>2. /\ UNCHANGED <<needsDisplay, operations, empty, suspended, dirty, background>>
      /\ \A m \in Draws \ {n} : content'[m] = content[m]
      /\ attemptedWhileEmpty \subseteq attemptedWhileEmpty'
  BY <1>1 DEF DisplayImmediately, rangeVars, queueVars, IInv, Types, TypeOK
<1>3. \A m : Live(m)' = Live(m)
  BY <1>2 DEF Live
<1>4. \A m : WillStart(m) => WillStart(m)'
  BY <1>2 DEF WillStart
<1>5. \A m \in Draws \ {n} : shown'[m] = shown[m]
  BY <1>1 DEF DisplayImmediately, IInv, Types, TypeOK
<1>6. overtaken \subseteq overtaken'
  BY DEF DisplayImmediately, noteVars
<1>7. \/ WillStart(n)'
      \/ shown'[n] = content'[n] /\ (Live(n) # {} => n \in overtaken')
  <2>1. CASE n \in empty
    BY <1>2, <2>1 DEF DisplayImmediately, WillStart
  <2>2. CASE n \notin empty
    <3>1. /\ shown' = [shown EXCEPT ![n] = content'[n]]
          /\ overtaken' = overtaken \cup (IF IsUnderWay(n) THEN {n} ELSE {})
      BY <2>2 DEF DisplayImmediately
    <3>2. shown'[n] = content'[n]
      BY <1>1, <3>1 DEF IInv, Types, TypeOK
    <3>3. Live(n) # {} => n \in overtaken'
      BY <3>1 DEF IsUnderWay, Live
    <3>4. QED
      BY <3>2, <3>3
  <2>3. QED
    BY <2>1, <2>2
<1>8. LiveIsNewest'
  BY <1>2, <1>3, <1>4, <1>6, <1>7 DEF LiveIsNewest
<1>9. NotForgotten'
  BY <1>2, <1>3, <1>4, <1>5, <1>6, <1>7 DEF NotForgotten
<1>10. QED
  BY <1>8, <1>9

\* Leaving the range suspends display, and entering it marks every layer.
LEMMA RangeNewest ==
  ASSUME IInv, LiveIsNewest, NotForgotten,
         EnterDisplay \/ ExitDisplay \/ ClearContents
  PROVE  LiveIsNewest' /\ NotForgotten'
<1>1. Types /\ suspended \in BOOLEAN
  BY LiveTypes DEF IInv
<1>same. ASSUME UNCHANGED <<content, shown, operations, overtaken, needsDisplay, suspended,
                            boundVars, dirty, background>>
         PROVE  LiveIsNewest' /\ NotForgotten'
  <2>1. \A n : Live(n)' = Live(n) /\ WillStart(n)' = WillStart(n)
    BY <1>same DEF Live, WillStart, boundVars
  <2>2. QED
    BY <1>same, <2>1 DEF LiveIsNewest, NotForgotten
<1>2. CASE EnterDisplay
  <2>1. UNCHANGED <<content, shown, boundVars, dirty, background>> /\ suspended' = FALSE
    BY <1>2 DEF EnterDisplay, SetDisplaySuspended
  <2>2. CASE suspended = FALSE
    BY <1>2, <1>same, <2>1, <2>2 DEF EnterDisplay, SetDisplaySuspended
  <2>3. CASE suspended # FALSE
    <3>1. Resume
      BY <1>1, <1>2, <2>3 DEF EnterDisplay, SetDisplaySuspended
    <3>2. needsDisplay' = Nodes
      BY <3>1 DEF Resume
    <3>3. \A n \in Draws : WillStart(n)'
      BY <3>2, Tree DEF WillStart
    <3>4. QED
      BY <3>3 DEF LiveIsNewest, NotForgotten
  <2>4. QED
    BY <2>2, <2>3
<1>3. CASE ExitDisplay
  <2>1. suspended' = TRUE /\ inDisplay
    BY <1>3 DEF ExitDisplay, SetDisplaySuspended
  <2>2. suspended = FALSE
    BY <1>1, <2>1 DEF IInv, DisplaysOK, RangeOK
  <2>3. operations' = Outdated(Nodes)
    BY <1>3, <2>2 DEF ExitDisplay, SetDisplaySuspended, Suspend, CancelAsyncDisplay
  <2>4. \A n \in Nodes : Live(n)' = {}
    BY <1>1, <2>3, OutdatedLive
  <2>5. QED
    BY <2>1, <2>4, Tree DEF LiveIsNewest, NotForgotten
<1>4. CASE ClearContents
  <2>1. /\ clears > 0
        /\ UNCHANGED <<content, operations, overtaken, needsDisplay, suspended, boundVars,
                       dirty, background>>
    BY <1>4 DEF ClearContents, queueVars
  <2>2. CASE inDisplay
    BY <1>4, <1>same, <2>1, <2>2 DEF ClearContents
  <2>3. CASE ~inDisplay
    <3>1. suspended /\ \A n \in Nodes : Live(n) = {}
      BY <2>1, <2>3 DEF IInv, DisplaysOK, RangeOK
    <3>2. \A n \in Nodes : Live(n)' = {}
      BY <2>1, <3>1 DEF Live
    <3>3. QED
      BY <2>1, <3>1, <3>2, Tree DEF LiveIsNewest, NotForgotten
  <2>4. QED
    BY <2>2, <2>3
<1>5. QED
  BY <1>2, <1>3, <1>4

LEMMA NextNewest ==
  ASSUME LayersOffMain, IInv, OffMainOK, LiveIsNewest, NotForgotten, [Next]_vars
  PROVE  LiveIsNewest' /\ NotForgotten'
<1>starts. ASSUME NEW D \in SUBSET Nodes, DisplayIfNeeded(D),
                  UNCHANGED <<content, shown, empty, suspended, dirty, background>>
           PROVE  LiveIsNewest' /\ NotForgotten'
  BY <1>starts, StartedNewest
<1>completes. ASSUME NEW S \in SUBSET operations, Complete(S),
                     UNCHANGED <<content, needsDisplay, boundVars, rangeVars, queueVars,
                                 noteVars>>
              PROVE  LiveIsNewest' /\ NotForgotten'
  BY <1>completes, CompletedNewest DEF boundVars, rangeVars, queueVars, noteVars
<1>1. CASE EnsureDisplay
  <2>1. DisplayIfNeeded(Draws) /\ Draws \in SUBSET Nodes
        /\ UNCHANGED <<content, shown, empty, suspended, dirty, background>>
    BY <1>1, Tree DEF EnsureDisplay, rangeVars, queueVars
  <2>2. QED
    BY <1>starts, <2>1
<1>2. CASE CommitLayers
  <2>1. DisplayIfNeeded(Nodes)
        /\ UNCHANGED <<content, shown, empty, suspended, dirty, background>>
    BY <1>2 DEF CommitLayers, rangeVars, queueVars
  <2>2. QED
    BY <1>starts, <2>1
<1>3. ASSUME NEW n \in Nodes, DisplayScheduled(n) PROVE LiveIsNewest' /\ NotForgotten'
  <2>1. DisplayIfNeeded(Subtree(n) \cap Draws) /\ Subtree(n) \cap Draws \in SUBSET Nodes
        /\ UNCHANGED <<content, shown, empty, suspended, dirty, background>>
    BY <1>3, Tree DEF DisplayScheduled, rangeVars
  <2>2. QED
    BY <1>starts, <2>1
<1>4. CASE DisplayEnsured
  <2>1. Complete(operations) /\ operations \in SUBSET operations
        /\ UNCHANGED <<content, needsDisplay, boundVars, rangeVars, queueVars, noteVars>>
    BY <1>4 DEF DisplayEnsured
  <2>2. QED
    BY <1>completes, <2>1
<1>5. ASSUME NEW o \in operations, CompleteTransaction(o.transaction, Container[o.node])
      PROVE  LiveIsNewest' /\ NotForgotten'
  <2> DEFINE S == Of(o.transaction, Container[o.node])
  <2>1. Complete(S) /\ S \in SUBSET operations
        /\ UNCHANGED <<content, needsDisplay, boundVars, rangeVars, queueVars, noteVars>>
    BY <1>5 DEF CompleteTransaction, Of
  <2> HIDE DEF S
  <2>2. QED
    BY <1>completes, <2>1
<1>6. ASSUME NEW n \in Immediate, NEW c \in BOOLEAN, DisplayImmediately(n, c)
      PROVE  LiveIsNewest' /\ NotForgotten'
  BY <1>6, Tree, ImmediateNewest
<1>7. ASSUME NEW o \in operations, Draw(o) PROVE LiveIsNewest' /\ NotForgotten'
  BY <1>7, DrawNewest
<1>8. QED
  BY <1>1, <1>2, <1>3, <1>4, <1>5, <1>6, <1>7, QuietNewest, RangeNewest DEF Next

\* While main is blocked, other threads draw and change nodes.
LEMMA NextAsked ==
  ASSUME IInv, LiveIsNewest', NotForgotten', AskedOK, [Next]_vars
  PROVE  AskedOK'
<1>free. ASSUME main' = "free" PROVE AskedOK'
  BY <1>free DEF AskedOK
<1>same. ASSUME UNCHANGED <<main, shown, operations, overtaken, empty, suspended, asked>>
         PROVE  AskedOK'
  BY <1>same DEF AskedOK, Live
<1>1. CASE EnsureDisplay
  <2>1. /\ DisplayIfNeeded(Draws) /\ Draws \in SUBSET Nodes
        /\ asked' = [n \in Nodes |->
                       IF n \in dirty \cup {background.node} THEN 0 ELSE content[n]]
        /\ UNCHANGED <<content, shown, empty, suspended, dirty, background>>
    BY <1>1, Tree DEF EnsureDisplay, rangeVars, queueVars
  <2>2. needsDisplay' = needsDisplay \ Draws
    BY <2>1, Displays DEF IInv
  <2>3. ASSUME NEW n \in Draws \ (overtaken' \cup empty'), ~suspended'
        PROVE  \/ asked'[n] <= shown'[n]
               \/ \E o \in Live(n)' : asked'[n] <= o.parameters
    <3>1. n \in Nodes /\ shown[n] \in Nat /\ content[n] \in Nat
      BY <2>3, Tree, LiveTypes DEF IInv
    <3>2. CASE n \in dirty \cup {background.node}
      BY <2>1, <3>1, <3>2
    <3>3. CASE n \notin dirty \cup {background.node}
      <4>1. ~WillStart(n)' /\ asked'[n] = content[n]
        BY <2>1, <2>2, <2>3, <3>1, <3>3 DEF WillStart
      <4>2. shown[n] = content[n] \/ Live(n)' # {}
        BY <2>1, <2>3, <4>1 DEF NotForgotten
      <4>3. \A o \in Live(n)' : o.parameters = content[n]
        BY <2>1, <2>3, <4>1 DEF LiveIsNewest
      <4>4. QED
        BY <2>1, <3>1, <4>1, <4>2, <4>3
    <3>4. QED
      BY <3>2, <3>3
  <2>4. QED
    BY <2>3 DEF AskedOK
<1>2. ASSUME NEW o \in operations, Draw(o) PROVE AskedOK'
  <2>1. \A n : \A p \in Live(n) : \E q \in Live(n)' : q.parameters = p.parameters
    BY <1>2, DrawEffect DEF IInv
  <2>2. UNCHANGED <<main, shown, overtaken, empty, suspended, asked>>
    BY <1>2 DEF Draw, drawVars, boundVars, rangeVars, noteVars
  <2>3. ASSUME main = "blocked", NEW n \in Draws \ (overtaken \cup empty), ~suspended
        PROVE  asked[n] <= shown[n] \/ \E q \in Live(n)' : asked[n] <= q.parameters
    <3>1. asked[n] <= shown[n] \/ \E p \in Live(n) : asked[n] <= p.parameters
      BY <2>3 DEF AskedOK
    <3>2. ASSUME NEW p \in Live(n), asked[n] <= p.parameters
          PROVE  \E q \in Live(n)' : asked[n] <= q.parameters
      <4>1. PICK q \in Live(n)' : q.parameters = p.parameters
        BY <2>1, <3>2
      <4>2. QED
        BY <3>2, <4>1
    <3>3. QED
      BY <3>1, <3>2
  <2>4. QED
    BY <2>2, <2>3 DEF AskedOK
<1>3. CASE \/ \E n \in ChangedOffMain : ChangeOffMain(n)
           \/ MarkPending \/ ScheduleOffMain \/ UNCHANGED vars
  BY <1>3, <1>same DEF ChangeOffMain, MarkPending, ScheduleOffMain, offMainUnchanged,
     vars, drawVars, boundVars, rangeVars, noteVars
<1>4. CASE \/ \E k \in Changed : Change(k)
           \/ \E k \in Resized : SetBounds(k)
           \/ \E k \in Immediate, c \in BOOLEAN : DisplayImmediately(k, c)
           \/ EnterHierarchy \/ ExitHierarchy \/ EnterDisplay \/ ExitDisplay
           \/ DisplayEnsured \/ CommitLayers
  BY <1>4, <1>free DEF Change, SetBounds, DisplayImmediately, EnterHierarchy,
     ExitHierarchy, EnterDisplay, ExitDisplay, DisplayEnsured, CommitLayers, Call, Turn
<1>5. CASE \/ CommitTransactions \/ ClearContents \/ Flush
           \/ \E k \in Nodes : DisplayScheduled(k)
           \/ \E o \in operations : CompleteTransaction(o.transaction, Container[o.node])
  BY <1>5, <1>free DEF CommitTransactions, ClearContents, Flush, DisplayScheduled,
     CompleteTransaction, Turn
<1>6. QED
  BY <1>1, <1>2, <1>3, <1>4, <1>5 DEF Next

LEMMA NextChangesOK ==
  LayersOffMain /\ IInv /\ ChangesOK /\ [Next]_vars => ChangesOK'
  BY NextOffMainOK, NextNewest, NextAsked DEF ChangesOK, IInv

LEMMA Shown == ChangesOK => ChangesAreNotForgotten
<1> SUFFICES ASSUME ChangesOK, NEW n \in Draws \ overtaken, ~suspended,
                    shown[n] # content[n]
             PROVE  WillBeShown(n)
  BY DEF ChangesAreNotForgotten
<1>1. WillStart(n) \/ Live(n) # {}
  BY DEF ChangesOK, NotForgotten
<1>2. CASE WillStart(n)
  BY <1>2 DEF WillStart, WillBeShown
<1>3. ASSUME NEW o \in Live(n) PROVE WillBeShown(n)
  <2>1. o.parameters = content[n] \/ WillStart(n)
    BY <1>3 DEF ChangesOK, LiveIsNewest
  <2>2. o \in operations /\ o.node = n /\ ~o.outdated
    BY <1>3 DEF Live
  <2>3. QED
    BY <1>2, <2>1, <2>2 DEF WillBeShown
<1>4. QED
  BY <1>1, <1>2, <1>3

\* When main goes on, every display that counted has brought what was asked for.
LEMMA Ensured ==
  ASSUME IInv, AskedOK, [Next]_vars, main = "blocked", main' = "free",
         NEW n \in Draws \ (overtaken \cup empty), ~suspended
  PROVE  shown'[n] >= asked[n]
<1>1. DisplayEnsured
  <2>1. main # main' /\ main # "free" /\ main' # "blocked"
    OBVIOUS
  <2>2. ~(\/ \E k \in Changed : Change(k)
          \/ \E k \in Resized : SetBounds(k)
          \/ \E k \in Immediate, c \in BOOLEAN : DisplayImmediately(k, c)
          \/ EnterHierarchy \/ ExitHierarchy \/ EnterDisplay \/ ExitDisplay
          \/ EnsureDisplay \/ CommitLayers)
    BY <2>1 DEF Change, SetBounds, DisplayImmediately, EnterHierarchy, ExitHierarchy,
       EnterDisplay, ExitDisplay, EnsureDisplay, CommitLayers, Call, Turn
  <2>3. ~(\/ CommitTransactions \/ ClearContents \/ Flush
          \/ \E k \in Nodes : DisplayScheduled(k)
          \/ \E o \in operations : CompleteTransaction(o.transaction, Container[o.node]))
    BY <2>1 DEF CommitTransactions, ClearContents, Flush, DisplayScheduled,
       CompleteTransaction, Turn
  <2>4. ~(\/ \E o \in operations : Draw(o)
          \/ \E k \in ChangedOffMain : ChangeOffMain(k)
          \/ MarkPending \/ ScheduleOffMain \/ UNCHANGED vars)
    BY <2>1 DEF Draw, ChangeOffMain, MarkPending, ScheduleOffMain, offMainUnchanged, vars
  <2>5. QED
    BY <2>2, <2>3, <2>4 DEF Next
<1>2. n \in Nodes /\ shown[n] \in Nat /\ asked[n] \in Nat
      /\ \A o \in Live(n) : o.parameters \in Nat /\ shown[n] <= o.parameters
  BY Tree, LiveTypes DEF IInv, DisplaysOK, VersionsOK, Types, TypeOK
<1>3. /\ Live(n) \cap operations = {} => shown'[n] = shown[n]
      /\ \A o \in Live(n) \cap operations : shown'[n] = o.parameters
  <2>1. Complete(operations) /\ operations \in SUBSET operations
    BY <1>1 DEF DisplayEnsured
  <2>2. QED
    BY <1>2, <2>1, Completes DEF IInv, DisplaysOK
<1>4. Live(n) \cap operations = Live(n)
  BY DEF Live
<1>5. asked[n] <= shown[n] \/ \E o \in Live(n) : asked[n] <= o.parameters
  BY DEF AskedOK
<1>6. CASE Live(n) = {}
  BY <1>2, <1>3, <1>4, <1>5, <1>6
<1>7. ASSUME NEW o \in Live(n) PROVE shown'[n] >= asked[n]
  <2>1. shown'[n] = o.parameters
    BY <1>3, <1>4, <1>7
  <2>2. CASE asked[n] <= shown[n]
    BY <1>2, <1>7, <2>1, <2>2
  <2>3. ASSUME NEW p \in Live(n), asked[n] <= p.parameters
        PROVE  shown'[n] >= asked[n]
    <3>1. shown'[n] = p.parameters
      BY <1>3, <1>4, <2>3
    <3>2. QED
      BY <1>2, <2>3, <3>1
  <2>4. QED
    BY <1>5, <2>2, <2>3
<1>8. QED
  BY <1>6, <1>7

LEMMA ChangesInvariance == ASSUME LayersOffMain PROVE Spec => [](IInv /\ ChangesOK)
<1>1. Init => IInv /\ ChangesOK
  BY InitTypes, InitDisplaysOK, InitChangesOK DEF IInv
<1>2. IInv /\ ChangesOK /\ [Next]_vars => IInv' /\ ChangesOK'
  BY NextIInv, NextChangesOK
<1>3. QED
  BY <1>1, <1>2, PTL DEF Spec

\* A change of a node is displayed or on its way to be, whatever cancels, overtakes
\* or suspends displays, if other threads change layer-backed nodes only.
THEOREM ChangesAreNeverForgotten ==
  ASSUME LayersOffMain PROVE Spec => []ChangesAreNotForgotten
<1>1. IInv /\ ChangesOK => ChangesAreNotForgotten
  BY Shown
<1>2. QED
  BY <1>1, ChangesInvariance, PTL

\* recursivelyEnsureDisplaySynchronously: returns with what was asked for, also
\* when nodes are changed and drawn on other threads while main is blocked.
THEOREM EnsuredIsAlwaysShown ==
  ASSUME LayersOffMain PROVE Spec => EnsuredMeansShown
<1>1. IInv /\ ChangesOK /\ [Next]_vars =>
        [main = "blocked" /\ main' = "free" =>
           \A n \in Draws \ (overtaken \cup empty) :
             ~suspended => shown'[n] >= asked[n]]_vars
  BY Ensured DEF ChangesOK
<1>2. QED
  BY <1>1, ChangesInvariance, PTL DEF Spec, EnsuredMeansShown
===============================================================================
