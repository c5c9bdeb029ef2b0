------------------------ MODULE AsyncTransactionProofs ------------------------
(* Proofs about transactions and their completion blocks, for any number of *)
(* layers, transactions and operations, as long as no callback waits for a  *)
(* transaction that is being completed further up the stack, and no hook    *)
(* displays in the layer or the transaction that the method below it is     *)
(* about to cancel or to complete.                                          *)
EXTENDS AsyncTransaction, TLAPS

-----------------------------------------------------------------------------
(* The stack. *)

Frame ==
  [kind : {"completing", "callback"}, t : Transactions, i : Nat, canceled : BOOLEAN]
    \cup [kind : {"hook", "waiting", "waitCommitted"}, t : Transactions]
    \cup [kind : {"committing"}, layers : SUBSET Layers]
    \cup [kind : {"canceling"}, layer : Layers]

IsOf(f) == "t" \in DOMAIN f

In(f, s) == \E i \in DOMAIN s : s[i] = f

\* Below a method that is not a callback there are callbacks only, but for
\* these: a hook is called by the commit of a container or of a cancellation,
\* and a wait that is over may commit the main group.
Callbacks(s) == \A i \in DOMAIN s : s[i].kind = "callback"

OneMethod(s) ==
  /\ s # <<>> /\ Callbacks(Tail(s))
  /\ Head(s).kind \in {"completing", "hook", "waiting", "waitCommitted",
                       "committing", "canceling"}

CommitInWait(s) ==
  /\ s # <<>> /\ Head(s).kind = "committing"
  /\ Tail(s) # <<>> /\ Head(Tail(s)).kind = "waitCommitted"
  /\ Callbacks(Tail(Tail(s)))

HookInCommit(s) ==
  /\ s # <<>> /\ Head(s).kind = "hook"
  /\ \/ CommitInWait(Tail(s))
     \/ OneMethod(Tail(s)) /\ Head(Tail(s)).kind \in {"committing", "canceling"}

Shape(s) == Callbacks(s) \/ OneMethod(s) \/ CommitInWait(s) \/ HookInCommit(s)

\* Main is inside at most one method of each transaction.
Unique(s) ==
  \A i, j \in DOMAIN s :
    IsOf(s[i]) /\ IsOf(s[j]) /\ s[i].t = s[j].t => i = j

StackOK == stack \in Seq(Frame) /\ Shape(stack) /\ Unique(stack)

\* What each method that main is inside relies on.
FrameOK(f) ==
  /\ f.kind \in {"completing", "callback"} =>
       /\ state[f.t] \in {"committed", "canceled"}
       /\ operations[f.t] # <<>> /\ outstanding[f.t] = {}
       /\ ~f.canceled => \A o \in ToSet(operations[f.t]) : value[o]
  /\ f.kind = "completing" => f.i >= 1
  /\ f.kind = "callback" =>
       f.i \in DOMAIN operations[f.t] /\ calls[operations[f.t][f.i]] # 0
  /\ f.kind = "waiting" => operations[f.t] # <<>> /\ waiter = f.t
  /\ f.kind = "waitCommitted" =>
       /\ operations[f.t] # <<>> /\ outstanding[f.t] = {}
       /\ state[f.t] = "open" => layerOf[f.t] \notin containers
  /\ f.kind = "hook" => state[f.t] \notin {"none", "open"}

FramesOK == \A f \in Frame : In(f, stack) => FrameOK(f)

-----------------------------------------------------------------------------
(* Transactions and their layers. *)

IsCanceling(l) == \E f \in Frame : In(f, stack) /\ f.kind = "canceling" /\ f.layer = l
IsCommitting(l) ==
  \E f \in Frame : In(f, stack) /\ f.kind = "committing" /\ l \in f.layers

\* The current transaction is open, until it is committed by a cancellation.
CurrentOK ==
  /\ \A l \in Layers : current[l] # NoTransaction =>
       /\ layerOf[current[l]] = l
       /\ l \in containers \/ IsCommitting(l)
       /\ state[current[l]] = IF IsCanceling(l) THEN "committed" ELSE "open"
  /\ \A t \in Transactions : state[t] = "open" =>
       layerOf[t] \in Layers /\ current[layerOf[t]] = t /\ t \in layerTransactions[layerOf[t]]

\* The transactions of a layer are those that were not completed.
LayersOK ==
  /\ \A l \in Layers : \A t \in layerTransactions[l] :
       /\ layerOf[t] = l /\ completed[t] = 0
       /\ state[t] \in {"open", "committed", "canceled"}
  /\ \A t \in Transactions :
       /\ completed[t] \in {0, 1}
       /\ state[t] \in {"committed", "canceled"} /\ operations[t] # <<>> =>
            layerOf[t] \in Layers /\ t \in layerTransactions[layerOf[t]]

-----------------------------------------------------------------------------
(* Operations and groups. *)

OwnersOK ==
  /\ \A t, u \in Transactions :
       \A i \in DOMAIN operations[t], j \in DOMAIN operations[u] :
         operations[t][i] = operations[u][j] => t = u /\ i = j
  /\ \A t \in Transactions : \A o \in ToSet(operations[t]) :
       completion[o] \/ calls[o] # 0

GroupsOK ==
  /\ \A t \in Transactions : \A o \in outstanding[t] :
       o \in ToSet(operations[t]) /\ block[o] # "none"
  /\ \A o \in Ops : block[o] # "none" => \E t \in Transactions : o \in outstanding[t]
  /\ \A t \in Transactions : t \in due \/ awaiting[t] # {} =>
       state[t] \notin {"none", "open"} /\ operations[t] # <<>>
  /\ \A t \in due : outstanding[t] = {}
  /\ \A t \in Transactions : awaiting[t] \subseteq {t}

\* Only blocks of canceled transactions are skipped.
ValuesOK ==
  \A t \in Transactions : \A o \in ToSet(operations[t]) :
    state[t] \in {"open", "committed"} /\ block[o] # "scheduled" => value[o]

\* A completion block that was called is released, or main is inside it.
CallsOK ==
  \A o \in Ops :
    /\ calls[o] \in {0, 1}
    /\ completion[o] /\ calls[o] = 1 =>
         \E f \in Frame : /\ In(f, stack) /\ f.kind = "callback"
                          /\ operations[f.t][f.i] = o

GroupTypeOK ==
  /\ outstanding \in [Transactions -> SUBSET Ops]
  /\ awaiting \in [Transactions -> SUBSET Transactions]
  /\ due \subseteq Transactions /\ waiter \in Transactions \cup {NoTransaction}

IInv ==
  /\ TypeOK /\ GroupTypeOK /\ StackOK /\ FramesOK
  /\ CurrentOK /\ LayersOK /\ OwnersOK /\ GroupsOK /\ ValuesOK /\ CallsOK

-----------------------------------------------------------------------------
(* Lemmas about frames and stacks. *)

Push(f, s) == <<f>> \o s

Kinds == {"completing", "callback", "hook", "waiting", "waitCommitted",
          "committing", "canceling"}

LEMMA FrameKinds ==
  ASSUME NEW f \in Frame
  PROVE  /\ f.kind \in Kinds
         /\ IsOf(f) => f.t \in Transactions
         /\ IsOf(f) <=> f.kind \notin {"committing", "canceling"}
         /\ f.kind \in {"completing", "callback"} => f.i \in Nat /\ f.canceled \in BOOLEAN
         /\ f.kind = "committing" => f.layers \subseteq Layers
         /\ f.kind = "canceling" => f.layer \in Layers
  BY DEF Frame, IsOf, Kinds

LEMMA Frames ==
  ASSUME NEW t \in Transactions, NEW i \in Nat, NEW c \in BOOLEAN,
         NEW l \in Layers, NEW L \in SUBSET Layers
  PROVE  /\ Completing(t, i, c) \in Frame
         /\ InCallback(t, i, c) \in Frame
         /\ InHook(t) \in Frame /\ Waiting(t) \in Frame /\ WaitCommitted(t) \in Frame
         /\ Committing(L) \in Frame /\ Canceling(l) \in Frame
  BY DEF Completing, InCallback, InHook, Waiting, WaitCommitted, Committing,
         Canceling, Frame

LEMMA FrameFields ==
  ASSUME NEW t, NEW i, NEW c, NEW l, NEW L
  PROVE  /\ Completing(t, i, c).kind = "completing" /\ Completing(t, i, c).t = t
         /\ Completing(t, i, c).i = i /\ Completing(t, i, c).canceled = c
         /\ InCallback(t, i, c).kind = "callback" /\ InCallback(t, i, c).t = t
         /\ InCallback(t, i, c).i = i /\ InCallback(t, i, c).canceled = c
         /\ InHook(t).kind = "hook" /\ InHook(t).t = t
         /\ Waiting(t).kind = "waiting" /\ Waiting(t).t = t
         /\ WaitCommitted(t).kind = "waitCommitted" /\ WaitCommitted(t).t = t
         /\ Committing(L).kind = "committing" /\ Committing(L).layers = L
         /\ Canceling(l).kind = "canceling" /\ Canceling(l).layer = l
  BY DEF Completing, InCallback, InHook, Waiting, WaitCommitted, Committing, Canceling

LEMMA PushIndices ==
  ASSUME NEW s \in Seq(Frame), NEW f \in Frame
  PROVE  /\ Push(f, s) \in Seq(Frame) /\ Push(f, s) # <<>>
         /\ Head(Push(f, s)) = f /\ Tail(Push(f, s)) = s
         /\ DOMAIN Push(f, s) = 1..(Len(s) + 1)
         /\ Push(f, s)[1] = f
         /\ \A i \in 1..Len(s) : Push(f, s)[i + 1] = s[i]
<1>1. /\ Push(f, s) \in Seq(Frame)
      /\ Len(Push(f, s)) = Len(s) + 1
      /\ DOMAIN Push(f, s) = 1..(Len(s) + 1)
  BY DEF Push
<1>2. Push(f, s)[1] = f
  BY DEF Push
<1>3. \A i \in 1..Len(s) : Push(f, s)[i + 1] = s[i]
  BY DEF Push
<1>4. Push(f, s) # <<>> /\ Head(Push(f, s)) = f
  BY <1>1, <1>2
<1>5. Tail(Push(f, s)) = s
  BY <1>1, <1>3
<1>6. QED
  BY <1>1, <1>2, <1>3, <1>4, <1>5

LEMMA PushIn ==
  ASSUME NEW s \in Seq(Frame), NEW f \in Frame
  PROVE  /\ \A g : In(g, Push(f, s)) <=> g = f \/ In(g, s)
         /\ Callbacks(Push(f, s)) <=> f.kind = "callback" /\ Callbacks(s)
<1>1. DOMAIN s = 1..Len(s) /\ Len(s) \in Nat
  OBVIOUS
<1>2. /\ DOMAIN Push(f, s) = 1..(Len(s) + 1)
      /\ \A i \in 1..Len(s) : Push(f, s)[i + 1] = s[i]
      /\ Push(f, s)[1] = f
  BY PushIndices
<1>3. \A i \in 1..Len(s) : i + 1 \in 1..(Len(s) + 1)
  BY <1>1
<1>4. \A i \in 1..(Len(s) + 1) :
        i = 1 \/ (i - 1 \in 1..Len(s) /\ Push(f, s)[i] = s[i - 1])
  BY <1>1, <1>2
<1>5. ASSUME NEW i \in DOMAIN Push(f, s)
      PROVE  Push(f, s)[i] = f \/ \E j \in DOMAIN s : Push(f, s)[i] = s[j]
  BY <1>1, <1>2, <1>4
<1>6. ASSUME NEW j \in DOMAIN s
      PROVE  \E i \in DOMAIN Push(f, s) : Push(f, s)[i] = s[j]
  BY <1>1, <1>2, <1>3
<1>7. 1 \in DOMAIN Push(f, s) /\ Push(f, s)[1] = f
  BY <1>1, <1>2
<1>8. QED
  BY <1>5, <1>6, <1>7 DEF In, Callbacks

\* A stack that is not empty is its head pushed on its tail.
LEMMA Popped ==
  ASSUME NEW s \in Seq(Frame), s # <<>>
  PROVE  /\ s = Push(Head(s), Tail(s))
         /\ Head(s) \in Frame /\ Tail(s) \in Seq(Frame)
  BY DEF Push

LEMMA PushTwo ==
  ASSUME NEW s \in Seq(Frame), NEW f \in Frame, NEW g \in Frame
  PROVE  <<f, g>> \o s = Push(f, Push(g, s))
<1>1. /\ <<f, g>> \o s \in Seq(Frame) /\ Push(f, Push(g, s)) \in Seq(Frame)
      /\ Len(<<f, g>> \o s) = Len(s) + 2
      /\ Len(Push(f, Push(g, s))) = Len(s) + 2
  BY DEF Push
<1>2. \A i \in 1..(Len(s) + 2) :
        (<<f, g>> \o s)[i] = IF i = 1 THEN f ELSE IF i = 2 THEN g ELSE s[i - 2]
  OBVIOUS
<1>3. \A i \in 1..(Len(s) + 2) :
        Push(f, Push(g, s))[i] = IF i = 1 THEN f ELSE IF i = 2 THEN g ELSE s[i - 2]
  BY DEF Push
<1>4. QED
  BY <1>1, <1>2, <1>3

LEMMA PushUnique ==
  ASSUME NEW s \in Seq(Frame), NEW f \in Frame
  PROVE  Unique(Push(f, s)) <=>
           /\ Unique(s)
           /\ IsOf(f) => \A g \in Frame : In(g, s) /\ IsOf(g) => g.t # f.t
<1>1. DOMAIN s = 1..Len(s) /\ Len(s) \in Nat /\ \A i \in 1..Len(s) : s[i] \in Frame
  OBVIOUS
<1>2. /\ DOMAIN Push(f, s) = 1..(Len(s) + 1)
      /\ Push(f, s)[1] = f
      /\ \A i \in 1..Len(s) : Push(f, s)[i + 1] = s[i]
  BY PushIndices
<1>3. ASSUME Unique(Push(f, s))
      PROVE  Unique(s)
  <2>1. SUFFICES ASSUME NEW i \in DOMAIN s, NEW j \in DOMAIN s,
                        IsOf(s[i]), IsOf(s[j]), s[i].t = s[j].t
                 PROVE  i = j
    BY DEF Unique
  <2>2. i + 1 = j + 1
    <3>1. i + 1 \in DOMAIN Push(f, s) /\ j + 1 \in DOMAIN Push(f, s)
      BY <1>1, <1>2
    <3>2. Push(f, s)[i + 1] = s[i] /\ Push(f, s)[j + 1] = s[j]
      BY <1>1, <1>2
    <3>3. QED
      BY <1>3, <2>1, <3>1, <3>2 DEF Unique
  <2>3. QED
    BY <1>1, <2>2
<1>4. ASSUME Unique(Push(f, s)), IsOf(f), NEW g \in Frame, In(g, s), IsOf(g), g.t = f.t
      PROVE  FALSE
  <2>1. PICK j \in DOMAIN s : s[j] = g
    BY <1>4 DEF In
  <2>2. 1 \in DOMAIN Push(f, s) /\ j + 1 \in DOMAIN Push(f, s)
    BY <1>1, <1>2
  <2>3. 1 = j + 1
    BY <1>1, <1>2, <1>4, <2>1, <2>2 DEF Unique
  <2>4. QED
    BY <1>1, <2>3
<1>5. ASSUME Unique(s),
             IsOf(f) => \A g \in Frame : In(g, s) /\ IsOf(g) => g.t # f.t
      PROVE  Unique(Push(f, s))
  <2>1. SUFFICES ASSUME NEW i \in DOMAIN Push(f, s), NEW j \in DOMAIN Push(f, s),
                        IsOf(Push(f, s)[i]), IsOf(Push(f, s)[j]),
                        Push(f, s)[i].t = Push(f, s)[j].t
                 PROVE  i = j
    BY DEF Unique
  <2>2. \A k \in DOMAIN Push(f, s) :
          k = 1 \/ (k - 1 \in DOMAIN s /\ Push(f, s)[k] = s[k - 1])
    BY <1>1, <1>2
  <2>3. \A k \in DOMAIN s : In(s[k], s) /\ s[k] \in Frame
    BY <1>1 DEF In
  <2>4. i \in Int /\ j \in Int
    BY <1>1, <1>2
  <2>5. CASE i = 1 \/ j = 1
    BY <1>2, <1>5, <2>1, <2>2, <2>3, <2>5
  <2>6. CASE i # 1 /\ j # 1
    <3>1. /\ i - 1 \in DOMAIN s /\ Push(f, s)[i] = s[i - 1]
          /\ j - 1 \in DOMAIN s /\ Push(f, s)[j] = s[j - 1]
      BY <2>2, <2>6
    <3>2. i - 1 = j - 1
      BY <1>5, <2>1, <3>1 DEF Unique
    <3>3. QED
      BY <2>4, <3>2
  <2>7. QED
    BY <2>5, <2>6
<1>6. QED
  BY <1>3, <1>4, <1>5

\* What there is below a commit.
BelowCommit(s) ==
  \/ Callbacks(s)
  \/ s # <<>> /\ Head(s).kind = "waitCommitted" /\ Callbacks(Tail(s))

LEMMA Shapes ==
  ASSUME NEW s \in Seq(Frame), NEW f \in Frame
  PROVE  /\ Callbacks(s) => Shape(s) /\ Shape(Push(f, s))
         /\ BelowCommit(s) /\ f.kind = "committing" => Shape(Push(f, s))
         /\ Callbacks(s) /\ f.kind = "waitCommitted" => BelowCommit(Push(f, s))
         /\ \A h \in Frame : h.kind = "hook" =>
              /\ BelowCommit(s) /\ f.kind = "committing" => Shape(Push(h, Push(f, s)))
              /\ Callbacks(s) /\ f.kind = "canceling" => Shape(Push(h, Push(f, s)))
<1>1. /\ Push(f, s) \in Seq(Frame) /\ Push(f, s) # <<>>
      /\ Head(Push(f, s)) = f /\ Tail(Push(f, s)) = s
  BY PushIndices
<1>2. f.kind \in Kinds
  BY FrameKinds
<1>3. Callbacks(Push(f, s)) <=> f.kind = "callback" /\ Callbacks(s)
  BY PushIn
<1>4. ASSUME Callbacks(s) PROVE Callbacks(Push(f, s)) \/ OneMethod(Push(f, s))
  BY <1>1, <1>2, <1>3, <1>4 DEF OneMethod, Kinds
<1>5. ASSUME BelowCommit(s), f.kind = "committing"
      PROVE  OneMethod(Push(f, s)) \/ CommitInWait(Push(f, s))
  <2>1. CASE Callbacks(s)
    BY <1>3, <1>4, <1>5, <2>1
  <2>2. CASE s # <<>> /\ Head(s).kind = "waitCommitted" /\ Callbacks(Tail(s))
    BY <1>1, <1>5, <2>2 DEF CommitInWait
  <2>3. QED
    BY <1>5, <2>1, <2>2 DEF BelowCommit
<1>6. ASSUME Callbacks(s), f.kind = "waitCommitted" PROVE BelowCommit(Push(f, s))
  BY <1>1, <1>6 DEF BelowCommit
<1>7. ASSUME NEW h \in Frame, h.kind = "hook",
             CommitInWait(Push(f, s)) \/ OneMethod(Push(f, s)),
             f.kind \in {"committing", "canceling"}
      PROVE  Shape(Push(h, Push(f, s)))
  <2>1. /\ Push(h, Push(f, s)) # <<>>
        /\ Head(Push(h, Push(f, s))) = h /\ Tail(Push(h, Push(f, s))) = Push(f, s)
    BY <1>1, PushIndices
  <2>2. QED
    BY <1>1, <1>7, <2>1 DEF HookInCommit, Shape
<1>8. ASSUME Callbacks(s), f.kind = "canceling" PROVE OneMethod(Push(f, s))
  BY <1>3, <1>4, <1>8
<1>9. QED
  BY <1>4, <1>5, <1>6, <1>7, <1>8 DEF Shape

\* What there is below the method main is inside.
LEMMA BelowTop ==
  ASSUME NEW s \in Seq(Frame), Shape(s), s # <<>>
  PROVE  /\ Head(s).kind = "callback" => Callbacks(s) /\ Callbacks(Tail(s))
         /\ Head(s).kind \in {"completing", "waiting", "waitCommitted", "canceling"} =>
              Callbacks(Tail(s))
         /\ Head(s).kind = "committing" => BelowCommit(Tail(s))
         /\ Head(s).kind = "hook" => Shape(Tail(s))
<1>1. s = Push(Head(s), Tail(s)) /\ Head(s) \in Frame /\ Tail(s) \in Seq(Frame)
  BY Popped
<1>2. Callbacks(s) => Head(s).kind = "callback" /\ Callbacks(Tail(s))
  BY <1>1, PushIn
<1>3. CASE Callbacks(s)
  BY <1>2, <1>3
<1>4. CASE OneMethod(s)
  BY <1>4 DEF OneMethod, BelowCommit, Shape
<1>5. CASE CommitInWait(s)
  BY <1>5 DEF CommitInWait, BelowCommit
<1>6. CASE HookInCommit(s)
  BY <1>6 DEF HookInCommit, Shape
<1>7. QED
  BY <1>3, <1>4, <1>5, <1>6 DEF Shape

-----------------------------------------------------------------------------
(* Lemmas about the invariant. *)

LEMMA InitIInv == Init => IInv
<1> SUFFICES ASSUME Init PROVE IInv
  OBVIOUS
<1> USE DEF Init, Group!Init
<1>1. TypeOK /\ GroupTypeOK
  BY DEF TypeOK, GroupTypeOK
<1>2. \A f : ~In(f, stack)
  BY DEF In
<1>3. StackOK /\ FramesOK
  BY <1>2 DEF StackOK, FramesOK, Shape, Callbacks, Unique
<1>4. CurrentOK /\ LayersOK
  BY AsyncTransactionAssumption DEF CurrentOK, LayersOK, AsyncTransactionAssumption
<1>5. OwnersOK /\ GroupsOK /\ ValuesOK /\ CallsOK
  BY DEF OwnersOK, GroupsOK, ValuesOK, CallsOK, ToSet
<1>6. QED
  BY <1>1, <1>3, <1>4, <1>5 DEF IInv

\* The method main is inside, and those below it.
LEMMA TopOfStack ==
  ASSUME IInv, stack # <<>>
  PROVE  /\ stack = Push(Top, Rest) /\ Top \in Frame /\ Rest \in Seq(Frame)
         /\ Unique(Rest) /\ FrameOK(Top)
         /\ \A g : In(g, stack) <=> g = Top \/ In(g, Rest)
         /\ \A g \in Frame : In(g, Rest) =>
              FrameOK(g) /\ (IsOf(g) /\ IsOf(Top) => g.t # Top.t)
<1>1. stack \in Seq(Frame) /\ Unique(stack)
  BY DEF IInv, StackOK
<1>2. stack = Push(Top, Rest) /\ Top \in Frame /\ Rest \in Seq(Frame)
  BY <1>1, Popped DEF Top, Rest
<1>3. \A g : In(g, stack) <=> g = Top \/ In(g, Rest)
  BY <1>2, PushIn
<1>4. /\ Unique(Rest)
      /\ IsOf(Top) => \A g \in Frame : In(g, Rest) /\ IsOf(g) => g.t # Top.t
  BY <1>1, <1>2, PushUnique
<1>5. FrameOK(Top) /\ \A g \in Frame : In(g, Rest) => FrameOK(g)
  BY <1>2, <1>3 DEF IInv, FramesOK
<1>6. QED
  BY <1>2, <1>3, <1>4, <1>5

\* While client code runs, main is inside callbacks only.
LEMMA ClientStack ==
  ASSUME IInv, ClientRuns
  PROVE  /\ Callbacks(stack)
         /\ \A f \in Frame : In(f, stack) => f.kind = "callback"
<1>1. Callbacks(stack)
  <2>1. CASE stack = <<>>
    BY <2>1 DEF Callbacks
  <2>2. CASE stack # <<>> /\ Head(stack).kind = "callback"
    BY <2>2, BelowTop DEF IInv, StackOK
  <2>3. QED
    BY <2>1, <2>2 DEF ClientRuns, Inside
<1>2. QED
  BY <1>1 DEF Callbacks, In

LEMMA FrameStays ==
  ASSUME NEW f \in Frame, FrameOK(f),
         IsOf(f) =>
           /\ operations'[f.t] = operations[f.t]
           /\ state'[f.t] = state[f.t] \/ state'[f.t] \in {"committed", "canceled"}
           /\ outstanding'[f.t] \subseteq outstanding[f.t]
           /\ outstanding[f.t] = {} =>
                \A o \in ToSet(operations[f.t]) : value'[o] = value[o]
           /\ \A o \in ToSet(operations[f.t]) : calls[o] # 0 => calls'[o] # 0,
         f.kind = "waiting" => waiter' = waiter,
         f.kind = "waitCommitted" =>
           \/ layerOf'[f.t] = layerOf[f.t] /\ containers' \subseteq containers
           \/ state'[f.t] = "open" => layerOf'[f.t] \notin containers'
  PROVE  FrameOK(f)'
<1>1. IsOf(f) <=> f.kind \notin {"committing", "canceling"}
  BY FrameKinds
<1>2. \A i \in DOMAIN operations[f.t] : operations[f.t][i] \in ToSet(operations[f.t])
  BY DEF ToSet
<1>3. QED
  BY <1>1, <1>2 DEF FrameOK

\* The methods main is inside stay as they are.
LEMMA FramesStay ==
  ASSUME IInv,
         UNCHANGED <<stack, operations, state, value, calls, waiter>>,
         UNCHANGED <<containers, layerOf>>,
         \A t \in Transactions : outstanding'[t] \subseteq outstanding[t]
  PROVE  StackOK' /\ FramesOK'
<1>1. StackOK'
  BY DEF IInv, StackOK
<1>2. ASSUME NEW f \in Frame, In(f, stack) PROVE FrameOK(f)'
  BY <1>2, FrameStays, FrameKinds DEF IInv, FramesOK
<1>3. QED
  BY <1>1, <1>2 DEF FramesOK

LEMMA CurrentStays ==
  ASSUME CurrentOK, UNCHANGED <<current, state, layerOf, layerTransactions>>,
         \A l \in Layers : /\ IsCanceling(l)' <=> IsCanceling(l)
                           /\ l \in containers \/ IsCommitting(l) =>
                                l \in containers' \/ IsCommitting(l)'
  PROVE  CurrentOK'
  BY DEF CurrentOK

\* A completion block that is called stays so while its frame does.
LEMMA CallsStay ==
  ASSUME CallsOK, calls' = calls,
         \A o \in Ops : completion'[o] => completion[o] \/ calls[o] = 0,
         \A f \in Frame : f.kind = "callback" /\ In(f, stack) =>
                            In(f, stack') /\ operations'[f.t][f.i] = operations[f.t][f.i]
  PROVE  CallsOK'
  BY DEF CallsOK

-----------------------------------------------------------------------------
(* The steps of workers. *)

\* The transaction an operation was added to.
LEMMA Owner ==
  ASSUME IInv, NEW o \in Ops, block[o] # "none"
  PROVE  /\ TransactionOf(o) \in Transactions
         /\ o \in outstanding[TransactionOf(o)]
         /\ o \in ToSet(operations[TransactionOf(o)])
         /\ \A u \in Transactions :
              o \in ToSet(operations[u]) => u = TransactionOf(o)
<1>1. PICK t \in Transactions : o \in outstanding[t]
  BY DEF IInv, GroupsOK
<1>2. o \in ToSet(operations[t])
  BY <1>1 DEF IInv, GroupsOK
<1>3. \A u \in Transactions : o \in ToSet(operations[u]) => u = t
  <2>1. SUFFICES ASSUME NEW u \in Transactions, o \in ToSet(operations[u])
                 PROVE  u = t
    OBVIOUS
  <2>2. PICK i \in DOMAIN operations[t], j \in DOMAIN operations[u] :
          operations[t][i] = o /\ operations[u][j] = o
    BY <1>2, <2>1 DEF ToSet
  <2>3. QED
    BY <2>2 DEF IInv, OwnersOK
<1>4. TransactionOf(o) = t
  BY <1>2, <1>3 DEF TransactionOf
<1>5. QED
  BY <1>1, <1>2, <1>3, <1>4

LEMMA RunBlockOK ==
  ASSUME IInv, NEW o \in Ops, RunBlock(o)
  PROVE  IInv'
<1>1. /\ block[o] = "scheduled" /\ block' = [block EXCEPT ![o] = "ran"]
      /\ value' = [value EXCEPT ![o] = state[TransactionOf(o)] # "canceled"]
      /\ UNCHANGED <<state, operations, layerOf, current, layerTransactions, containers>>
      /\ UNCHANGED <<completion, calls, completed, outstanding, awaiting, due, waiter>>
      /\ stack' = stack
  BY DEF RunBlock, txVars, boxVars, callVars, grpVars
<1>2. TypeOK /\ GroupTypeOK
  BY DEF IInv
<1>3. TypeOK' /\ GroupTypeOK'
  <2>1. block' \in [Ops -> {"none", "scheduled", "ran"}]
    BY <1>1, <1>2 DEF TypeOK
  <2>2. value' \in [Ops -> BOOLEAN]
    <3>1. (state[TransactionOf(o)] # "canceled") \in BOOLEAN
      OBVIOUS
    <3>2. QED
      BY <1>1, <1>2, <3>1, Zenon DEF TypeOK
  <2>3. QED
    BY <1>1, <1>2, <2>1, <2>2 DEF TypeOK, GroupTypeOK
<1>4. StackOK' /\ FramesOK'
  <2>1. StackOK'
    BY <1>1 DEF IInv, StackOK
  <2>2. ASSUME NEW f \in Frame, In(f, stack) PROVE FrameOK(f)'
    <3>1. FrameOK(f)
      BY <2>2 DEF IInv, FramesOK
    <3>2. ASSUME IsOf(f), outstanding[f.t] = {}, NEW p \in ToSet(operations[f.t])
          PROVE  value'[p] = value[p]
      <4>1. f.t \in Transactions
        BY <3>2, FrameKinds
      <4>2. p # o
        BY <1>1, <3>2, <4>1, Owner
      <4>3. p \in Ops
        BY <1>2, <3>2, <4>1 DEF TypeOK, ToSet
      <4>4. QED
        BY <1>1, <1>2, <4>2, <4>3 DEF TypeOK
    <3>3. QED
      BY <1>1, <3>1, <3>2, FrameStays
  <2>3. QED
    BY <1>1, <2>1, <2>2 DEF FramesOK
<1>5. CurrentOK'
  BY <1>1 DEF IInv, CurrentOK, IsCanceling, IsCommitting
<1>6. LayersOK' /\ OwnersOK'
  BY <1>1 DEF IInv, LayersOK, OwnersOK
<1>7. GroupsOK'
  BY <1>1, <1>2 DEF IInv, GroupsOK, TypeOK, GroupTypeOK
<1>8. ValuesOK'
  <2>1. SUFFICES ASSUME NEW t \in Transactions, NEW p \in ToSet(operations[t]),
                        state[t] \in {"open", "committed"}, block'[p] # "scheduled"
                 PROVE  value'[p]
    BY <1>1 DEF ValuesOK
  <2>2. p \in Ops
    BY <1>2 DEF TypeOK, ToSet
  <2>3. CASE p = o
    <3>1. t = TransactionOf(o)
      BY <1>1, <2>1, <2>3, Owner
    <3>2. value'[o] = (state[TransactionOf(o)] # "canceled")
      BY <1>1, <1>2, Zenon DEF TypeOK
    <3>3. QED
      BY <2>1, <2>3, <3>1, <3>2
  <2>4. CASE p # o
    <3>1. block'[p] = block[p] /\ value'[p] = value[p]
      BY <1>1, <1>2, <2>2, <2>4 DEF TypeOK
    <3>2. QED
      BY <2>1, <3>1 DEF IInv, ValuesOK
  <2>5. QED
    BY <2>3, <2>4
<1>9. CallsOK'
  BY <1>1 DEF IInv, CallsOK
<1>10. QED
  BY <1>3, <1>4, <1>5, <1>6, <1>7, <1>8, <1>9 DEF IInv

LEMMA LeaveGroupOK ==
  ASSUME IInv, NEW o \in Ops, LeaveGroup(o)
  PROVE  IInv'
<1> DEFINE t == TransactionOf(o)
<1>1. /\ block[o] = "ran" /\ block' = [block EXCEPT ![o] = "none"]
      /\ Group!Leave(o, t) /\ stack' = stack
      /\ UNCHANGED <<state, operations, layerOf, current, layerTransactions, containers>>
      /\ UNCHANGED <<value, completion, calls, completed>>
  BY DEF LeaveGroup, txVars, boxVars, callVars
<1>2. TypeOK /\ GroupTypeOK
  BY DEF IInv
<1>3. /\ t \in Transactions /\ o \in outstanding[t] /\ o \in ToSet(operations[t])
      /\ \A u \in Transactions : o \in ToSet(operations[u]) => u = t
  BY <1>1, Owner
<1> HIDE DEF t
<1>4. /\ outstanding' = [outstanding EXCEPT ![t] = @ \ {o}] /\ waiter' = waiter
      /\ \/ /\ outstanding[t] = {o} /\ due' = due \cup awaiting[t]
            /\ awaiting' = [awaiting EXCEPT ![t] = {}]
         \/ UNCHANGED <<due, awaiting>>
  BY <1>1 DEF Group!Leave
<1>5. /\ \A u \in Transactions : outstanding'[u] \subseteq outstanding[u]
      /\ outstanding'[t] = outstanding[t] \ {o}
      /\ \A u \in Transactions : u # t => outstanding'[u] = outstanding[u]
  BY <1>2, <1>3, <1>4 DEF GroupTypeOK
<1>6. TypeOK' /\ GroupTypeOK'
  <2>1. TypeOK'
    BY <1>1, <1>2 DEF TypeOK
  <2>2. GroupTypeOK'
    BY <1>2, <1>3, <1>4 DEF GroupTypeOK
  <2>3. QED
    BY <2>1, <2>2
<1>7. StackOK' /\ FramesOK'
  BY <1>1, <1>4, <1>5, FramesStay
<1>8. CurrentOK'
  BY <1>1 DEF IInv, CurrentOK, IsCanceling, IsCommitting
<1>9. LayersOK' /\ OwnersOK'
  BY <1>1 DEF IInv, LayersOK, OwnersOK
<1>10. GroupsOK'
  <2>1. GroupsOK
    BY DEF IInv
  <2>2. \A p \in Ops : p # o => block'[p] = block[p]
    BY <1>1, <1>2 DEF TypeOK
  <2>3. ASSUME NEW u \in Transactions, NEW p \in outstanding'[u]
        PROVE  p \in ToSet(operations[u]) /\ block'[p] # "none"
    <3>1. p \in outstanding[u] /\ p \in Ops
      BY <1>2, <1>5, <2>3 DEF GroupTypeOK
    <3>2. p # o
      BY <1>3, <1>5, <2>1, <2>3, <3>1 DEF GroupsOK
    <3>3. QED
      BY <2>1, <2>2, <3>1, <3>2 DEF GroupsOK
  <2>4. ASSUME NEW p \in Ops, block'[p] # "none"
        PROVE  \E u \in Transactions : p \in outstanding'[u]
    <3>1. p # o
      BY <1>1, <1>2, <2>4 DEF TypeOK
    <3>2. PICK u \in Transactions : p \in outstanding[u]
      BY <2>1, <2>2, <2>4, <3>1 DEF GroupsOK
    <3>3. p \in outstanding'[u]
      BY <1>5, <3>1, <3>2
    <3>4. QED
      BY <3>3
  <2>5. ASSUME NEW u \in Transactions
        PROVE  /\ awaiting'[u] \subseteq awaiting[u]
               /\ u \in due' => u \in due \/ (u \in awaiting[u] /\ outstanding'[u] = {})
    <3>1. CASE UNCHANGED <<due, awaiting>>
      BY <3>1
    <3>2. CASE /\ outstanding[t] = {o} /\ due' = due \cup awaiting[t]
               /\ awaiting' = [awaiting EXCEPT ![t] = {}]
      <4>1. awaiting[t] \subseteq {t}
        BY <1>3, <2>1 DEF GroupsOK
      <4>2. awaiting'[u] = IF u = t THEN {} ELSE awaiting[u]
        BY <1>2, <3>2 DEF GroupTypeOK
      <4>3. outstanding'[t] = {}
        BY <1>5, <3>2
      <4>4. QED
        BY <3>2, <4>1, <4>2, <4>3
    <3>3. QED
      BY <1>4, <3>1, <3>2
  <2>6. \A u \in Transactions : u \in due' \/ awaiting'[u] # {} =>
          state[u] \notin {"none", "open"} /\ operations[u] # <<>>
    BY <2>1, <2>5 DEF GroupsOK
  <2>7. \A u \in Transactions : awaiting'[u] \subseteq {u}
    BY <2>1, <2>5 DEF GroupsOK
  <2>8. \A u \in due' : outstanding'[u] = {}
    <3>1. SUFFICES ASSUME NEW u \in due' PROVE outstanding'[u] = {}
      OBVIOUS
    <3>2. u \in Transactions
      BY <1>6 DEF GroupTypeOK
    <3>3. QED
      BY <1>5, <2>1, <2>5, <3>2 DEF GroupsOK
  <2>9. QED
    BY <1>1, <2>3, <2>4, <2>6, <2>7, <2>8 DEF GroupsOK
<1>11. ValuesOK'
  BY <1>1, <1>2 DEF IInv, ValuesOK, TypeOK
<1>12. CallsOK'
  BY <1>1 DEF IInv, CallsOK
<1>13. QED
  BY <1>6, <1>7, <1>8, <1>9, <1>10, <1>11, <1>12 DEF IInv

LEMMA DeallocOK ==
  ASSUME IInv, NEW t \in Transactions, Dealloc(t)
  PROVE  IInv'
<1> DEFINE mine == ToSet(operations[t])
<1>1. /\ state[t] # "none" /\ ~Referenced(t)
      /\ value' = [o \in Ops |-> o \notin mine /\ value[o]]
      /\ completion' = [o \in Ops |-> o \notin mine /\ completion[o]]
      /\ calls' = [o \in Ops |-> IF o \in mine THEN 0 ELSE calls[o]]
      /\ state' = [state EXCEPT ![t] = "none"]
      /\ operations' = [operations EXCEPT ![t] = <<>>]
      /\ layerOf' = [layerOf EXCEPT ![t] = NoLayer]
      /\ completed' = [completed EXCEPT ![t] = 0]
      /\ UNCHANGED <<current, layerTransactions, containers, block, stack>>
      /\ UNCHANGED <<outstanding, awaiting, due, waiter>>
  BY DEF Dealloc, boxVars, grpVars
<1>2. TypeOK /\ GroupTypeOK
  BY DEF IInv
<1>3. /\ \A l \in Layers : t # current[l] /\ t \notin layerTransactions[l]
      /\ outstanding[t] = {} /\ t \notin due /\ t \notin awaiting[t] /\ ~OnStack(t)
  BY <1>1 DEF Referenced, Group!Empty
<1>4. \A f \in Frame : In(f, stack) /\ IsOf(f) => f.t # t
  BY <1>3 DEF OnStack, In, IsOf
<1>5. /\ state'[t] = "none" /\ operations'[t] = <<>> /\ layerOf'[t] = NoLayer
      /\ completed'[t] = 0
      /\ \A u \in Transactions : u # t =>
           /\ state'[u] = state[u] /\ operations'[u] = operations[u]
           /\ layerOf'[u] = layerOf[u] /\ completed'[u] = completed[u]
  BY <1>1, <1>2 DEF TypeOK
<1>6. ASSUME NEW u \in Transactions, u # t, NEW o \in ToSet(operations[u])
      PROVE  /\ o \in Ops /\ o \notin mine
             /\ value'[o] = value[o] /\ completion'[o] = completion[o]
             /\ calls'[o] = calls[o]
  <2>1. o \in Ops
    BY <1>2 DEF TypeOK, ToSet
  <2>2. o \notin mine
    BY <1>6 DEF IInv, OwnersOK, ToSet
  <2>3. calls'[o] = calls[o]
    BY <1>1, <2>1, <2>2
  <2>4. value[o] \in BOOLEAN /\ completion[o] \in BOOLEAN
    BY <1>2, <2>1 DEF TypeOK
  <2>5. value'[o] = value[o] /\ completion'[o] = completion[o]
    BY <1>1, <2>1, <2>2, <2>4
  <2>6. QED
    BY <2>1, <2>2, <2>3, <2>5
<1>7. \A o \in Ops : value'[o] \in BOOLEAN /\ completion'[o] \in BOOLEAN
  BY <1>1, Zenon
<1>8. TypeOK' /\ GroupTypeOK'
  <2>1. state' \in [Transactions -> {"none", "open", "committed", "canceled", "complete"}]
    BY <1>1, <1>2 DEF TypeOK
  <2>2. /\ operations' \in [Transactions -> Seq(Ops)]
        /\ layerOf' \in [Transactions -> Layers \cup {NoLayer}]
        /\ completed' \in [Transactions -> Nat]
    BY <1>1, <1>2 DEF TypeOK
  <2>3. calls' \in [Ops -> Nat]
    BY <1>1, <1>2 DEF TypeOK
  <2>4. value' \in [Ops -> BOOLEAN] /\ completion' \in [Ops -> BOOLEAN]
    <3>1. /\ value' = [o \in Ops |-> value'[o]]
          /\ completion' = [o \in Ops |-> completion'[o]]
      BY <1>1, Zenon
    <3>2. QED
      BY <1>7, <3>1
  <2>5. \A u \in Transactions : state'[u] = "none" =>
          operations'[u] = <<>> /\ layerOf'[u] = NoLayer /\ completed'[u] = 0
    BY <1>2, <1>5 DEF TypeOK
  <2>6. QED
    BY <1>1, <1>2, <2>1, <2>2, <2>3, <2>4, <2>5 DEF TypeOK, GroupTypeOK
<1> HIDE DEF mine
<1>9. StackOK' /\ FramesOK'
  <2>1. StackOK'
    BY <1>1 DEF IInv, StackOK
  <2>2. ASSUME NEW f \in Frame, In(f, stack) PROVE FrameOK(f)'
    <3>1. FrameOK(f)
      BY <2>2 DEF IInv, FramesOK
    <3>2. /\ IsOf(f) => f.t \in Transactions /\ f.t # t
          /\ f.kind = "waitCommitted" => IsOf(f)
      BY <1>4, <2>2, FrameKinds
    <3>3. IsOf(f) => layerOf'[f.t] = layerOf[f.t]
      BY <1>1, <1>2, <3>2 DEF TypeOK
    <3>4. QED
      BY <1>1, <1>5, <1>6, <3>1, <3>2, <3>3, FrameStays
  <2>3. QED
    BY <1>1, <2>1, <2>2 DEF FramesOK
<1>10. CurrentOK'
  <2>1. \A l \in Layers : /\ IsCanceling(l)' <=> IsCanceling(l)
                          /\ IsCommitting(l)' <=> IsCommitting(l)
    BY <1>1 DEF IsCanceling, IsCommitting
  <2>2. \A l \in Layers : current[l] # NoTransaction =>
          current[l] \in Transactions /\ current[l] # t
    BY <1>2, <1>3 DEF TypeOK
  <2>3. QED
    BY <1>1, <1>5, <2>1, <2>2 DEF IInv, CurrentOK
<1>11. LayersOK'
  <2>1. \A l \in Layers : \A u \in layerTransactions[l] : u \in Transactions /\ u # t
    BY <1>2, <1>3 DEF TypeOK
  <2>2. QED
    BY <1>1, <1>5, <2>1 DEF IInv, LayersOK
<1>12. OwnersOK'
  <2>1. ToSet(operations'[t]) = {} /\ DOMAIN operations'[t] = {}
    BY <1>5 DEF ToSet
  <2>2. QED
    BY <1>5, <1>6, <2>1 DEF IInv, OwnersOK
<1>13. GroupsOK'
  <2>1. \A u \in Transactions : \A o \in outstanding[u] :
          o \in ToSet(operations'[u]) /\ block[o] # "none"
    BY <1>3, <1>5 DEF IInv, GroupsOK
  <2>2. \A u \in Transactions : u \in due \/ awaiting[u] # {} =>
          state'[u] \notin {"none", "open"} /\ operations'[u] # <<>>
    BY <1>3, <1>5 DEF IInv, GroupsOK
  <2>3. QED
    BY <1>1, <2>1, <2>2 DEF IInv, GroupsOK
<1>14. ValuesOK'
  <2>1. SUFFICES ASSUME NEW u \in Transactions, NEW o \in ToSet(operations'[u]),
                        state'[u] \in {"open", "committed"}, block'[o] # "scheduled"
                 PROVE  value'[o]
    BY DEF ValuesOK
  <2>2. u # t
    BY <1>5, <2>1
  <2>3. o \in ToSet(operations[u]) /\ state[u] \in {"open", "committed"}
    BY <1>5, <2>1, <2>2
  <2>4. value[o]
    BY <1>1, <2>1, <2>3 DEF IInv, ValuesOK
  <2>5. QED
    BY <1>6, <2>2, <2>3, <2>4
<1>15. CallsOK'
  <2>1. SUFFICES ASSUME NEW o \in Ops
                 PROVE  /\ calls'[o] \in {0, 1}
                        /\ completion'[o] /\ calls'[o] = 1 =>
                             \E f \in Frame : /\ In(f, stack) /\ f.kind = "callback"
                                              /\ operations'[f.t][f.i] = o
    BY <1>1 DEF CallsOK
  <2>2. CASE o \in mine
    BY <1>1, <2>2
  <2>3. CASE o \notin mine
    <3>1. calls'[o] = calls[o] /\ (completion'[o] => completion[o])
      BY <1>1, <2>3
    <3>2. /\ calls[o] \in {0, 1}
          /\ completion[o] /\ calls[o] = 1 =>
               \E f \in Frame : /\ In(f, stack) /\ f.kind = "callback"
                                /\ operations[f.t][f.i] = o
      BY DEF IInv, CallsOK
    <3>3. \A f \in Frame : In(f, stack) /\ f.kind = "callback" =>
            operations'[f.t] = operations[f.t]
      BY <1>4, <1>5, FrameKinds
    <3>4. QED
      BY <3>1, <3>2, <3>3
  <2>4. QED
    BY <2>2, <2>3
<1>16. QED
  BY <1>8, <1>9, <1>10, <1>11, <1>12, <1>13, <1>14, <1>15 DEF IInv

-----------------------------------------------------------------------------
(* The steps by which main leaves the methods it is inside. *)

\* What stays while main only enters and leaves methods.
StackStep ==
  /\ UNCHANGED <<state, operations, layerOf, current, layerTransactions>>
  /\ UNCHANGED <<block, value, completion, calls, completed, outstanding, awaiting>>
  /\ due' \subseteq due /\ containers' \subseteq containers
  /\ waiter' \in Transactions \cup {NoTransaction}

\* The frame on top is replaced by f, of the same transaction or none.
LEMMA Replaced ==
  ASSUME IInv, stack # <<>>, NEW f \in Frame, stack' = Push(f, Rest),
         Shape(Push(f, Rest)),
         IsOf(f) => IsOf(Top) /\ f.t = Top.t
  PROVE  /\ StackOK'
         /\ \A g : In(g, stack') <=> g = f \/ In(g, Rest)
<1>1. Push(f, Rest) \in Seq(Frame) /\ \A g : In(g, stack') <=> g = f \/ In(g, Rest)
  BY TopOfStack, PushIndices, PushIn
<1>2. Unique(Push(f, Rest))
  BY TopOfStack, PushUnique
<1>3. QED
  BY <1>1, <1>2 DEF StackOK

LEMMA Left ==
  ASSUME IInv, stack # <<>>, stack' = Rest, Shape(Rest)
  PROVE  StackOK'
  BY TopOfStack DEF StackOK

\* A method returns, or calls another.
LEMMA StackStepOK ==
  ASSUME IInv, StackStep, StackOK',
         \A f \in Frame : In(f, stack') => FrameOK(f)',
         \A f \in Frame : f.kind = "callback" => (In(f, stack') <=> In(f, stack)),
         \A l \in Layers :
           /\ current[l] = NoTransaction \/ (IsCanceling(l)' <=> IsCanceling(l))
           /\ l \in containers \/ IsCommitting(l) =>
                l \in containers' \/ IsCommitting(l)'
  PROVE  IInv'
<1>1. TypeOK' /\ GroupTypeOK'
  BY DEF IInv, StackStep, TypeOK, GroupTypeOK
<1>2. FramesOK'
  BY DEF FramesOK
<1>3. CurrentOK'
  BY DEF IInv, CurrentOK, StackStep
<1>4. LayersOK' /\ OwnersOK'
  BY DEF IInv, StackStep, LayersOK, OwnersOK
<1>5. GroupsOK' /\ ValuesOK'
  BY DEF IInv, StackStep, GroupsOK, ValuesOK
<1>6. CallsOK'
  BY CallsStay DEF IInv, StackStep
<1>7. QED
  BY <1>1, <1>2, <1>3, <1>4, <1>5, <1>6 DEF IInv

\* A method relies on what it did, but for the group main waits for.
LEMMA FrameKept ==
  ASSUME StackStep, NEW f \in Frame, FrameOK(f),
         f.kind = "waiting" => waiter' = waiter
  PROVE  FrameOK(f)'
  BY DEF StackStep, FrameOK

\* Nobody waits below another method.
LEMMA NobodyWaits ==
  ASSUME IInv, stack # <<>>
  PROVE  \A f \in Frame : In(f, Rest) => f.kind # "waiting"
<1>1. stack \in Seq(Frame) /\ Shape(stack)
  BY DEF IInv, StackOK
<1>2. Rest \in Seq(Frame)
  BY TopOfStack
<1>3. ASSUME NEW s \in Seq(Frame), Callbacks(s), NEW f \in Frame, In(f, s)
      PROVE  f.kind = "callback"
  BY <1>3 DEF Callbacks, In
<1>4. ASSUME NEW s \in Seq(Frame), BelowCommit(s), NEW f \in Frame, In(f, s)
      PROVE  f.kind \in {"callback", "waitCommitted"}
  <2>1. CASE Callbacks(s)
    BY <1>3, <1>4, <2>1
  <2>2. CASE s # <<>> /\ Head(s).kind = "waitCommitted" /\ Callbacks(Tail(s))
    <3>1. Tail(s) \in Seq(Frame) /\ (f = Head(s) \/ In(f, Tail(s)))
      BY <1>4, <2>2, Popped, PushIn
    <3>2. QED
      BY <1>3, <2>2, <3>1
  <2>3. QED
    BY <1>4, <2>1, <2>2 DEF BelowCommit
<1>5. CASE Callbacks(Rest) \/ BelowCommit(Rest)
  BY <1>2, <1>3, <1>4, <1>5
<1>6. CASE HookInCommit(stack)
  <2>1. Rest # <<>> /\ (BelowCommit(Tail(Rest)) \/ Callbacks(Tail(Rest)))
        /\ Head(Rest).kind \in {"committing", "canceling"}
    BY <1>6 DEF HookInCommit, CommitInWait, OneMethod, BelowCommit, Rest
  <2>2. \A f \in Frame : In(f, Rest) => f = Head(Rest) \/ In(f, Tail(Rest))
    BY <1>2, <2>1, Popped, PushIn
  <2>3. Tail(Rest) \in Seq(Frame)
    BY <1>2, <2>1, Popped
  <2>4. QED
    BY <1>3, <1>4, <2>1, <2>2, <2>3
<1>7. QED
  <2>1. Callbacks(stack) => Callbacks(Rest)
    BY TopOfStack, PushIn
  <2>2. QED
    BY <1>1, <1>5, <1>6, <2>1 DEF Shape, OneMethod, CommitInWait, BelowCommit, Rest

LEMMA ReturnFromHookOK ==
  ASSUME IInv, ReturnFromHook
  PROVE  IInv'
<1>1. stack # <<>> /\ Top.kind = "hook" /\ stack' = Rest /\ StackStep
  BY DEF IInv, GroupTypeOK, ReturnFromHook, Inside, Top, StackStep, txVars, boxVars,
         opVars, callVars, grpVars
<1>2. StackOK'
  <2>1. Shape(Rest)
    BY <1>1, BelowTop DEF IInv, StackOK, Top, Rest
  <2>2. QED
    BY <1>1, <2>1, Left
<1>3. \A f \in Frame : In(f, stack') => FrameOK(f)'
  BY <1>1, TopOfStack, FrameKept, NobodyWaits
<1>4. \A f \in Frame : f.kind # "hook" => (In(f, stack') <=> In(f, stack))
  BY <1>1, TopOfStack
<1>5. \A l \in Layers : /\ IsCommitting(l) => IsCommitting(l)'
                        /\ IsCanceling(l)' <=> IsCanceling(l)
  BY <1>4 DEF IsCommitting, IsCanceling
<1>6. containers' = containers
  BY DEF ReturnFromHook, boxVars
<1>7. QED
  BY <1>1, <1>2, <1>3, <1>4, <1>5, <1>6, StackStepOK

LEMMA CommitDoneOK ==
  ASSUME IInv, CommitDone
  PROVE  IInv'
<1>1. /\ stack # <<>> /\ Top.kind = "committing" /\ Top.layers = {}
      /\ stack' = Rest /\ StackStep
  BY DEF IInv, GroupTypeOK, CommitDone, Inside, Top, StackStep, txVars, boxVars,
         opVars, callVars, grpVars
<1>2. StackOK'
  <2>1. BelowCommit(Rest)
    BY <1>1, BelowTop DEF IInv, StackOK, Top, Rest
  <2>2. Shape(Rest)
    BY <2>1 DEF BelowCommit, Shape, OneMethod
  <2>3. QED
    BY <1>1, <2>2, Left
<1>3. \A f \in Frame : In(f, stack') => FrameOK(f)'
  BY <1>1, TopOfStack, FrameKept, NobodyWaits
<1>4. \A f \in Frame : f # Top => (In(f, stack') <=> In(f, stack))
  BY <1>1, TopOfStack
<1>5. \A l \in Layers : /\ IsCommitting(l) => IsCommitting(l)'
                        /\ IsCanceling(l)' <=> IsCanceling(l)
  BY <1>1, <1>4 DEF IsCommitting, IsCanceling
<1>6. \A f \in Frame : f.kind = "callback" => (In(f, stack') <=> In(f, stack))
  BY <1>1, <1>4
<1>7. containers' = containers
  BY DEF CommitDone, boxVars
<1>8. QED
  BY <1>1, <1>2, <1>3, <1>5, <1>6, <1>7, StackStepOK

\* completeTransaction is entered for a transaction that was committed, with no
\* operation left in its group.
LEMMA Entered ==
  ASSUME IInv, NEW t \in Transactions, state[t] \in {"committed", "canceled"},
         operations[t] # <<>>, outstanding[t] = {}
  PROVE  /\ Completing(t, 1, state[t] = "canceled") \in Frame
         /\ FrameOK(Completing(t, 1, state[t] = "canceled"))
<1> DEFINE f == Completing(t, 1, state[t] = "canceled")
<1>1. f \in Frame
  BY DEF Completing, Frame
<1>2. /\ f.kind = "completing" /\ f.t = t /\ f.i = 1
      /\ f.canceled = (state[t] = "canceled")
  BY DEF Completing
<1>3. ASSUME state[t] # "canceled", NEW o \in ToSet(operations[t]) PROVE value[o]
  <2>1. o \in Ops
    BY DEF IInv, TypeOK, ToSet
  <2>2. block[o] = "none"
    BY <2>1, Owner
  <2>3. QED
    BY <1>3, <2>2 DEF IInv, ValuesOK
<1> HIDE DEF f
<1>4. ~f.canceled => \A o \in ToSet(operations[t]) : value[o]
  BY <1>2, <1>3
<1>5. FrameOK(f)
  BY <1>2, <1>4 DEF FrameOK
<1>6. QED
  BY <1>1, <1>5 DEF f

\* A wait for t, or the notification of t, enters completeTransaction.
LEMMA EnterCompleteOK ==
  ASSUME IInv, stack # <<>>, NEW t \in Transactions, Callbacks(Rest),
         IsOf(Top), Top.t = t, Top.kind \in {"waiting", "waitCommitted"},
         EnterComplete(t, Rest), StackStep, containers' = containers,
         state[t] \notin {"none", "open"}, operations[t] # <<>>, outstanding[t] = {}
  PROVE  IInv'
<1>1. state[t] # "complete" => state[t] \in {"committed", "canceled"}
  BY DEF IInv, TypeOK
<1>2. \A g \in Frame : In(g, Rest) => FrameOK(g)'
  BY TopOfStack, FrameKept, NobodyWaits
<1>3. CASE state[t] = "complete"
  <2>1. stack' = Rest
    BY <1>3 DEF EnterComplete
  <2>2. StackOK'
    BY <2>1, Left DEF Shape
  <2>3. \A f \in Frame : f # Top => (In(f, stack') <=> In(f, stack))
    BY <2>1, TopOfStack
  <2>4. \A l \in Layers : /\ IsCommitting(l) => IsCommitting(l)'
                          /\ IsCanceling(l)' <=> IsCanceling(l)
    BY <2>1, TopOfStack DEF IsCommitting, IsCanceling
  <2>5. \A f \in Frame : f.kind = "callback" => (In(f, stack') <=> In(f, stack))
    BY <2>1, TopOfStack
  <2>6. QED
    BY <1>2, <2>1, <2>2, <2>4, <2>5, StackStepOK
<1>4. CASE state[t] # "complete"
  <2>1. PICK f : f = Completing(t, 1, state[t] = "canceled")
    OBVIOUS
  <2>2. f \in Frame /\ FrameOK(f) /\ f.kind = "completing" /\ f.t = t
    BY <1>1, <1>4, <2>1, Entered, FrameFields
  <2>3. stack' = Push(f, Rest)
    BY <1>4, <2>1 DEF EnterComplete, Push
  <2>4. Shape(Push(f, Rest))
    BY <2>2, TopOfStack, Shapes
  <2>5. StackOK' /\ \A g : In(g, stack') <=> g = f \/ In(g, Rest)
    BY <2>2, <2>3, <2>4, Replaced
  <2>6. FrameOK(f)'
    BY <2>2, FrameKept
  <2>7. \A g \in Frame : In(g, stack') => FrameOK(g)'
    BY <1>2, <2>5, <2>6
  <2>8. \A g \in Frame : g.kind \notin {"completing", "waiting", "waitCommitted"} =>
          (In(g, stack') <=> In(g, stack))
    BY <2>2, <2>5, TopOfStack
  <2>9. \A l \in Layers : /\ IsCommitting(l) => IsCommitting(l)'
                          /\ IsCanceling(l)' <=> IsCanceling(l)
    BY <2>8 DEF IsCommitting, IsCanceling
  <2>10. QED
    BY <2>5, <2>7, <2>8, <2>9, StackStepOK
<1>5. QED
  BY <1>3, <1>4

LEMMA WaitCompleteOK ==
  ASSUME IInv, WaitComplete
  PROVE  IInv'
<1>1. /\ stack # <<>> /\ Top.kind = "waitCommitted" /\ EnterComplete(Top.t, Rest)
      /\ StackStep /\ containers' = containers
  BY DEF IInv, GroupTypeOK, WaitComplete, Inside, Top, StackStep, txVars, boxVars,
         opVars, callVars, grpVars
<1>2. Top \in Frame /\ IsOf(Top) /\ Top.t \in Transactions
  BY <1>1, TopOfStack, FrameKinds
<1>3. Callbacks(Rest)
  BY <1>1, BelowTop DEF IInv, StackOK, Top, Rest
<1>4. /\ operations[Top.t] # <<>> /\ outstanding[Top.t] = {}
      /\ state[Top.t] = "open" => layerOf[Top.t] \notin containers
  BY <1>1, TopOfStack DEF FrameOK
<1>5. \A l \in Layers : ~IsCommitting(l)
  BY <1>1, <1>3, TopOfStack DEF IsCommitting, Callbacks, In
<1>6. state[Top.t] # "open"
  <2>1. SUFFICES ASSUME state[Top.t] = "open" PROVE FALSE
    OBVIOUS
  <2>2. layerOf[Top.t] \in Layers /\ current[layerOf[Top.t]] = Top.t
    BY <1>2, <2>1 DEF IInv, CurrentOK
  <2>3. Top.t # NoTransaction
    BY <1>2, AsyncTransactionAssumption DEF AsyncTransactionAssumption
  <2>4. layerOf[Top.t] \in containers \/ IsCommitting(layerOf[Top.t])
    BY <2>2, <2>3 DEF IInv, CurrentOK
  <2>5. QED
    BY <1>4, <1>5, <2>1, <2>2, <2>4
<1>7. state[Top.t] # "none"
  BY <1>2, <1>4 DEF IInv, TypeOK
<1>8. QED
  BY <1>1, <1>2, <1>3, <1>4, <1>6, <1>7, EnterCompleteOK

\* A wait that is over enters completeTransaction, or commits the main group.
LEMMA WaitOverOK ==
  ASSUME IInv, WaitOver
  PROVE  IInv'
<1>1. /\ stack # <<>> /\ Top.kind = "waiting" /\ outstanding[waiter] = {}
      /\ waiter' = NoTransaction /\ UNCHANGED <<outstanding, awaiting, due>>
      /\ UNCHANGED <<state, operations, layerOf, current, layerTransactions>>
      /\ UNCHANGED <<block, value, completion, calls, completed>>
  BY DEF WaitOver, Inside, Top, Group!EndWait, Group!Empty, txVars, opVars, callVars
<1>2. Top \in Frame /\ IsOf(Top) /\ Top.t \in Transactions
  BY <1>1, TopOfStack, FrameKinds
<1>3. Callbacks(Rest)
  BY <1>1, BelowTop DEF IInv, StackOK, Top, Rest
<1>4. operations[Top.t] # <<>> /\ outstanding[Top.t] = {} /\ state[Top.t] # "none"
  <2>1. operations[Top.t] # <<>> /\ waiter = Top.t
    BY <1>1, TopOfStack DEF FrameOK
  <2>2. QED
    BY <1>1, <1>2, <2>1 DEF IInv, TypeOK
<1>5. CASE state[Top.t] # "open"
  <2>1. EnterComplete(Top.t, Rest) /\ containers' = containers
    BY <1>5 DEF WaitOver
  <2>2. StackStep
    BY <1>1, <2>1 DEF StackStep
  <2>3. QED
    BY <1>1, <1>2, <1>3, <1>4, <1>5, <2>1, <2>2, EnterCompleteOK
<1>6. CASE state[Top.t] = "open"
  <2>1. /\ stack' = <<Committing(containers), WaitCommitted(Top.t)>> \o Rest
        /\ containers' = {}
    BY <1>6 DEF WaitOver
  <2>2. StackStep
    BY <1>1, <2>1 DEF StackStep
  <2>3. PICK f, g : f = Committing(containers) /\ g = WaitCommitted(Top.t)
    OBVIOUS
  <2>4. /\ f \in Frame /\ f.kind = "committing" /\ f.layers = containers
        /\ g \in Frame /\ g.kind = "waitCommitted" /\ g.t = Top.t
    <3>1. containers \in SUBSET Layers
      BY DEF IInv, TypeOK
    <3>2. QED
      BY <1>2, <2>3, <3>1 DEF Committing, WaitCommitted, Frame
  <2>5. Rest \in Seq(Frame)
    BY <1>1, TopOfStack
  <2>6. stack' = Push(f, Push(g, Rest))
    BY <2>1, <2>3, <2>4, <2>5, PushTwo
  <2>7. /\ Push(g, Rest) \in Seq(Frame) /\ stack' \in Seq(Frame)
        /\ \A h : In(h, stack') <=> h = f \/ h = g \/ In(h, Rest)
    BY <2>4, <2>5, <2>6, PushIndices, PushIn
  <2>8. StackOK'
    <3>1. BelowCommit(Push(g, Rest))
      BY <1>3, <2>4, <2>5, Shapes
    <3>2. Shape(stack')
      BY <2>4, <2>6, <2>7, <3>1, Shapes
    <3>3. Unique(Push(g, Rest))
      BY <1>1, <1>2, <2>4, TopOfStack, PushUnique
    <3>4. ~IsOf(f)
      BY <2>4, FrameKinds
    <3>5. Unique(stack')
      BY <2>4, <2>6, <2>7, <3>3, <3>4, PushUnique
    <3>6. QED
      BY <2>7, <3>2, <3>5 DEF StackOK
  <2>9. ASSUME NEW h \in Frame, In(h, stack') PROVE FrameOK(h)'
    <3>1. CASE h = f
      BY <2>4, <3>1 DEF FrameOK
    <3>2. CASE h = g
      BY <1>1, <1>4, <2>1, <2>4, <3>2 DEF FrameOK
    <3>3. CASE In(h, Rest)
      BY <1>1, <2>2, <3>3, TopOfStack, FrameKept, NobodyWaits
    <3>4. QED
      BY <2>7, <2>9, <3>1, <3>2, <3>3
  <2>10. \A h \in Frame : h.kind \notin {"waiting", "waitCommitted", "committing"} =>
           (In(h, stack') <=> In(h, stack))
    BY <1>1, <2>4, <2>7, TopOfStack
  <2>11. \A l \in Layers : /\ IsCanceling(l)' <=> IsCanceling(l)
                           /\ l \in containers \/ IsCommitting(l) => IsCommitting(l)'
    <3>1. \A h \in Frame : h.kind = "committing" /\ In(h, stack) => In(h, stack')
      BY <1>1, <2>7, TopOfStack
    <3>2. In(f, stack')
      BY <2>7
    <3>3. QED
      BY <2>4, <2>10, <3>1, <3>2 DEF IsCanceling, IsCommitting
  <2>12. QED
    BY <2>2, <2>8, <2>9, <2>10, <2>11, StackStepOK
<1>7. QED
  BY <1>5, <1>6

LEMMA EmptyStack ==
  /\ \A f \in Frame : <<f>> = Push(f, <<>>) /\ <<f>> \o <<>> = Push(f, <<>>)
  /\ <<>> \in Seq(Frame) /\ Callbacks(<<>>) /\ Unique(<<>>)
  /\ \A f : ~In(f, <<>>)
  BY DEF Push, Callbacks, Unique, In

\* The main queue runs the notification of a group, main being idle.
LEMMA RunNotificationOK ==
  ASSUME IInv, NEW t \in Transactions, RunNotification(t)
  PROVE  IInv'
<1>1. /\ stack = <<>> /\ t \in due /\ due' = due \ {t} /\ EnterComplete(t, <<>>)
      /\ UNCHANGED <<state, operations, layerOf, current, layerTransactions, containers>>
      /\ UNCHANGED <<block, value, completion, calls, completed>>
      /\ UNCHANGED <<outstanding, awaiting, waiter>>
  BY DEF RunNotification, Group!RunNotification, txVars, boxVars, opVars, callVars
<1>2. StackStep /\ containers' = containers
  BY <1>1 DEF StackStep, IInv, GroupTypeOK
<1>3. /\ state[t] \notin {"none", "open"} /\ operations[t] # <<>> /\ outstanding[t] = {}
  BY <1>1 DEF IInv, GroupsOK
<1>4. CASE state[t] = "complete"
  <2>1. stack' = stack
    BY <1>1, <1>4 DEF EnterComplete
  <2>2. StackOK' /\ \A f \in Frame : ~In(f, stack')
    BY <1>1, <2>1, EmptyStack DEF IInv, StackOK
  <2>3. \A l \in Layers : /\ IsCanceling(l)' <=> IsCanceling(l)
                          /\ IsCommitting(l) => IsCommitting(l)'
    BY <2>1 DEF IsCanceling, IsCommitting
  <2>4. QED
    BY <1>2, <2>1, <2>2, <2>3, StackStepOK
<1>5. CASE state[t] # "complete"
  <2>1. state[t] \in {"committed", "canceled"}
    BY <1>3, <1>5 DEF IInv, TypeOK
  <2>2. PICK f : f = Completing(t, 1, state[t] = "canceled")
    OBVIOUS
  <2>3. f \in Frame /\ FrameOK(f) /\ f.kind = "completing"
    BY <1>3, <2>1, <2>2, Entered, FrameFields
  <2>4. stack' = Push(f, <<>>)
    BY <1>1, <1>5, <2>2, <2>3, EmptyStack DEF EnterComplete
  <2>5. StackOK' /\ \A g : In(g, stack') <=> g = f
    BY <2>3, <2>4, EmptyStack, PushIndices, PushIn, PushUnique, Shapes DEF StackOK
  <2>6. \A g \in Frame : In(g, stack') => FrameOK(g)'
    BY <1>2, <2>3, <2>5, FrameKept
  <2>7. \A g \in Frame : g.kind # "completing" => (In(g, stack') <=> In(g, stack))
    BY <1>1, <2>3, <2>5, EmptyStack
  <2>8. \A l \in Layers : /\ IsCanceling(l)' <=> IsCanceling(l)
                          /\ IsCommitting(l) => IsCommitting(l)'
    BY <2>7 DEF IsCanceling, IsCommitting
  <2>9. QED
    BY <1>2, <2>5, <2>6, <2>7, <2>8, StackStepOK
<1>6. QED
  BY <1>4, <1>5

LEMMA RunLoopCommitOK ==
  ASSUME IInv, RunLoopCommit
  PROVE  IInv'
<1>1. /\ stack = <<>> /\ stack' = <<Committing(containers)>> /\ containers' = {}
      /\ StackStep
  BY DEF RunLoopCommit, StackStep, IInv, GroupTypeOK, txVars, opVars, callVars, grpVars
<1>2. PICK f : f = Committing(containers)
  OBVIOUS
<1>3. f \in Frame /\ f.kind = "committing" /\ f.layers = containers
  BY <1>2 DEF Committing, Frame, IInv, TypeOK
<1>4. stack' = Push(f, <<>>)
  BY <1>1, <1>2, <1>3, EmptyStack
<1>5. StackOK' /\ \A g : In(g, stack') <=> g = f
  BY <1>3, <1>4, EmptyStack, PushIndices, PushIn, PushUnique, Shapes DEF StackOK
<1>6. \A g \in Frame : In(g, stack') => FrameOK(g)'
  BY <1>3, <1>5 DEF FrameOK
<1>7. \A g \in Frame : ~In(g, stack)
  BY <1>1, EmptyStack
<1>8. \A l \in Layers : /\ IsCanceling(l)' <=> IsCanceling(l)
                        /\ l \in containers \/ IsCommitting(l) => IsCommitting(l)'
  BY <1>3, <1>5, <1>7 DEF IsCanceling, IsCommitting
<1>9. QED
  BY <1>1, <1>3, <1>5, <1>6, <1>7, <1>8, StackStepOK

\* A callback, or main when it is idle, waits for a transaction.
LEMMA WaitUntilCompleteOK ==
  ASSUME IInv, ~WaitsForOwn, NEW l \in Layers, NEW t \in Transactions,
         WaitUntilComplete(l, t)
  PROVE  IInv'
<1>1. /\ ClientRuns /\ operations[t] # <<>> /\ ~OnStack(t)
      /\ waiter' = t /\ stack' = Push(Waiting(t), stack)
      /\ UNCHANGED <<state, operations, layerOf, current, layerTransactions, containers>>
      /\ UNCHANGED <<block, value, completion, calls, completed>>
      /\ UNCHANGED <<outstanding, awaiting, due>>
  BY DEF WaitUntilComplete, Group!BeginWait, Push, txVars, boxVars, opVars, callVars
<1>2. StackStep /\ containers' = containers
  BY <1>1 DEF StackStep
<1>3. stack \in Seq(Frame) /\ Unique(stack)
  BY DEF IInv, StackOK
<1>4. PICK f : f = Waiting(t)
  OBVIOUS
<1>5. f \in Frame /\ f.kind = "waiting" /\ f.t = t
  BY <1>4 DEF Waiting, Frame
<1>6. stack' \in Seq(Frame) /\ \A g : In(g, stack') <=> g = f \/ In(g, stack)
  BY <1>1, <1>3, <1>4, <1>5, PushIndices, PushIn
<1>7. StackOK'
  <2>1. \A g \in Frame : In(g, stack) /\ IsOf(g) => g.t # t
    BY <1>1 DEF OnStack, In, IsOf
  <2>2. Unique(stack')
    BY <1>1, <1>3, <1>4, <1>5, <2>1, PushUnique
  <2>3. Shape(stack')
    BY <1>1, <1>3, <1>4, <1>5, ClientStack, Shapes
  <2>4. QED
    BY <1>6, <2>2, <2>3 DEF StackOK
<1>8. ASSUME NEW g \in Frame, In(g, stack') PROVE FrameOK(g)'
  <2>1. CASE g = f
    BY <1>1, <1>5, <2>1 DEF FrameOK
  <2>2. CASE In(g, stack)
    <3>1. FrameOK(g) /\ g.kind = "callback"
      BY <1>1, <2>2, ClientStack DEF IInv, FramesOK
    <3>2. QED
      BY <1>2, <3>1, FrameKept
  <2>3. QED
    BY <1>6, <1>8, <2>1, <2>2
<1>9. \A g \in Frame : g.kind # "waiting" => (In(g, stack') <=> In(g, stack))
  BY <1>5, <1>6
<1>10. \A k \in Layers : /\ IsCanceling(k)' <=> IsCanceling(k)
                         /\ IsCommitting(k) => IsCommitting(k)'
  BY <1>9 DEF IsCanceling, IsCommitting
<1>11. QED
  BY <1>2, <1>7, <1>8, <1>9, <1>10, StackStepOK

\* The loop of completeTransaction comes to an operation.
LEMMA CallCompletionOK ==
  ASSUME IInv, CallCompletion
  PROVE  IInv'
<1> DEFINE t == Top.t
           i == Top.i
           o == operations[t][i]
<1>1. /\ stack # <<>> /\ Top.kind = "completing" /\ i <= Len(operations[t])
      /\ UNCHANGED <<state, operations, layerOf, current, layerTransactions, containers>>
      /\ UNCHANGED <<block, value, completion, completed>>
      /\ UNCHANGED <<outstanding, awaiting, due, waiter>>
  BY DEF CallCompletion, Inside, Top, txVars, boxVars, opVars, grpVars
<1>2. \/ /\ ~completion[o] /\ UNCHANGED calls
         /\ stack' = Push(Completing(t, i + 1, Top.canceled), Rest)
      \/ /\ completion[o] /\ calls' = [calls EXCEPT ![o] = @ + 1]
         /\ stack' = Push(InCallback(t, i, Top.canceled), Rest)
  BY DEF CallCompletion, Push
<1>3. /\ Top \in Frame /\ IsOf(Top) /\ t \in Transactions /\ i \in Nat
      /\ Top.canceled \in BOOLEAN
  BY <1>1, TopOfStack, FrameKinds
<1>4. Callbacks(Rest) /\ Rest \in Seq(Frame)
  BY <1>1, TopOfStack, BelowTop DEF IInv, StackOK, Top, Rest
<1>5. /\ FrameOK(Top) /\ i >= 1
      /\ \A g \in Frame : In(g, Rest) => FrameOK(g) /\ (IsOf(g) => g.t # t)
  BY <1>1, <1>3, TopOfStack DEF FrameOK
<1>6. i \in DOMAIN operations[t] /\ o \in ToSet(operations[t]) /\ o \in Ops
  BY <1>1, <1>3, <1>5 DEF IInv, TypeOK, ToSet
<1> HIDE DEF t, i, o
<1>7. CASE /\ ~completion[o] /\ UNCHANGED calls
           /\ stack' = Push(Completing(t, i + 1, Top.canceled), Rest)
  <2>1. StackStep
    BY <1>1, <1>7 DEF StackStep, IInv, GroupTypeOK
  <2>2. PICK f : f = Completing(t, i + 1, Top.canceled)
    OBVIOUS
  <2>3. /\ f \in Frame /\ f.kind = "completing" /\ f.t = t /\ f.i = i + 1
        /\ f.canceled = Top.canceled
    BY <1>3, <2>2 DEF Completing, Frame
  <2>4. StackOK' /\ \A g : In(g, stack') <=> g = f \/ In(g, Rest)
    <3>1. Shape(Push(f, Rest))
      BY <1>4, <2>3, Shapes
    <3>2. IsOf(Top) /\ f.t = Top.t /\ stack' = Push(f, Rest)
      BY <1>3, <1>7, <2>2, <2>3 DEF t
    <3>3. QED
      BY <1>1, <2>3, <3>1, <3>2, Replaced
  <2>5. FrameOK(f)
    <3>1. f.i >= 1
      BY <1>3, <2>3
    <3>2. QED
      BY <1>1, <1>5, <2>3, <3>1 DEF FrameOK, t
  <2>6. \A g \in Frame : In(g, stack') => FrameOK(g)'
    BY <1>5, <2>1, <2>3, <2>4, <2>5, FrameKept, NobodyWaits, <1>1
  <2>7. \A g \in Frame : g.kind # "completing" => (In(g, stack') <=> In(g, stack))
    BY <1>1, <2>3, <2>4, TopOfStack
  <2>8. \A l \in Layers : /\ IsCanceling(l)' <=> IsCanceling(l)
                          /\ IsCommitting(l) => IsCommitting(l)'
    BY <2>7 DEF IsCanceling, IsCommitting
  <2>9. QED
    BY <1>1, <2>1, <2>4, <2>6, <2>7, <2>8, StackStepOK
<1>8. CASE /\ completion[o] /\ calls' = [calls EXCEPT ![o] = @ + 1]
           /\ stack' = Push(InCallback(t, i, Top.canceled), Rest)
  <2>1. PICK f : f = InCallback(t, i, Top.canceled)
    OBVIOUS
  <2>2. /\ f \in Frame /\ f.kind = "callback" /\ f.t = t /\ f.i = i
        /\ f.canceled = Top.canceled
    BY <1>3, <2>1 DEF InCallback, Frame
  <2>3. StackOK' /\ \A g : In(g, stack') <=> g = f \/ In(g, Rest)
    <3>1. Shape(Push(f, Rest))
      BY <1>4, <2>2, Shapes
    <3>2. IsOf(Top) /\ f.t = Top.t /\ stack' = Push(f, Rest)
      BY <1>3, <1>8, <2>1, <2>2 DEF t
    <3>3. QED
      BY <1>1, <2>2, <3>1, <3>2, Replaced
  <2>4. \A g \in Frame : g.kind \notin {"completing", "callback"} =>
          (In(g, stack') <=> In(g, stack))
    BY <1>1, <2>2, <2>3, TopOfStack
  <2>5. \A g \in Frame : g.kind = "callback" /\ In(g, stack) =>
          In(g, stack') /\ g.t # t
    BY <1>1, <1>5, <2>3, TopOfStack, FrameKinds
  <2>6. calls[o] = 0
    <3>1. SUFFICES ASSUME calls[o] # 0 PROVE FALSE
      OBVIOUS
    <3>2. calls[o] = 1
      BY <1>6, <3>1 DEF IInv, CallsOK
    <3>3. PICK g \in Frame : /\ In(g, stack) /\ g.kind = "callback"
                             /\ operations[g.t][g.i] = o
      BY <1>6, <1>8, <3>2 DEF IInv, CallsOK
    <3>4. g.t \in Transactions /\ g.i \in DOMAIN operations[g.t]
      BY <3>3, FrameKinds DEF IInv, FramesOK, FrameOK
    <3>5. g.t = t
      BY <1>3, <1>6, <3>3, <3>4 DEF IInv, OwnersOK, o
    <3>6. QED
      BY <2>5, <3>3, <3>5
  <2>7. /\ calls' \in [Ops -> Nat] /\ calls'[o] = 1
        /\ \A p \in Ops : p # o => calls'[p] = calls[p]
    BY <1>6, <1>8, <2>6 DEF IInv, TypeOK
  <2>8. TypeOK' /\ GroupTypeOK'
    BY <1>1, <2>7 DEF IInv, TypeOK, GroupTypeOK
  <2>9. FramesOK'
    <3>1. ASSUME NEW g \in Frame, In(g, Rest) PROVE FrameOK(g)'
      <4>1. FrameOK(g) /\ g.kind # "waiting"
        BY <1>1, <1>5, <3>1, NobodyWaits
      <4>2. IsOf(g) => \A p \in ToSet(operations[g.t]) : calls[p] # 0 => calls'[p] # 0
        <5>1. SUFFICES ASSUME IsOf(g), NEW p \in ToSet(operations[g.t])
                       PROVE  p \in Ops
          BY <2>7
        <5>2. QED
          BY <5>1, FrameKinds DEF IInv, TypeOK, ToSet
      <4>3. QED
        BY <1>1, <4>1, <4>2, FrameStays
    <3>2. FrameOK(f)'
      BY <1>1, <1>5, <1>6, <2>2, <2>7 DEF FrameOK, t, i, o
    <3>3. QED
      BY <2>3, <3>1, <3>2 DEF FramesOK
  <2>10. CurrentOK'
    <3>1. \A l \in Layers : /\ IsCanceling(l)' <=> IsCanceling(l)
                            /\ IsCommitting(l) => IsCommitting(l)'
      BY <2>4 DEF IsCanceling, IsCommitting
    <3>2. QED
      BY <1>1, <3>1, CurrentStays DEF IInv
  <2>11. LayersOK' /\ GroupsOK' /\ ValuesOK'
    BY <1>1 DEF IInv, LayersOK, GroupsOK, ValuesOK
  <2>12. OwnersOK'
    <3>1. \A u \in Transactions : \A p \in ToSet(operations[u]) : p \in Ops
      BY DEF IInv, TypeOK, ToSet
    <3>2. QED
      BY <1>1, <2>7, <3>1 DEF IInv, OwnersOK
  <2>13. CallsOK'
    <3>1. SUFFICES ASSUME NEW p \in Ops
                   PROVE  /\ calls'[p] \in {0, 1}
                          /\ completion[p] /\ calls'[p] = 1 =>
                               \E g \in Frame : /\ In(g, stack') /\ g.kind = "callback"
                                                /\ operations[g.t][g.i] = p
      BY <1>1 DEF CallsOK
    <3>2. CASE p = o
      BY <2>2, <2>3, <2>7, <3>2 DEF o
    <3>3. CASE p # o
      BY <2>5, <2>7, <3>3 DEF IInv, CallsOK
    <3>4. QED
      BY <3>2, <3>3
  <2>14. QED
    BY <2>3, <2>8, <2>9, <2>10, <2>11, <2>12, <2>13 DEF IInv
<1>9. QED
  BY <1>2, <1>7, <1>8 DEF t, i, o

LEMMA ReturnFromCallbackOK ==
  ASSUME IInv, ReturnFromCallback
  PROVE  IInv'
<1> DEFINE t == Top.t
           i == Top.i
           o == operations[t][i]
<1>1. /\ stack # <<>> /\ Top.kind = "callback"
      /\ completion' = [completion EXCEPT ![o] = FALSE]
      /\ stack' = Push(Completing(t, i + 1, Top.canceled), Rest)
      /\ UNCHANGED <<state, operations, layerOf, current, layerTransactions, containers>>
      /\ UNCHANGED <<block, value, calls, completed>>
      /\ UNCHANGED <<outstanding, awaiting, due, waiter>>
  BY DEF ReturnFromCallback, Inside, Top, Push, txVars, boxVars, opVars, grpVars
<1>2. /\ Top \in Frame /\ IsOf(Top) /\ t \in Transactions /\ i \in Nat
      /\ Top.canceled \in BOOLEAN
  BY <1>1, TopOfStack, FrameKinds
<1>3. Callbacks(Rest) /\ Rest \in Seq(Frame)
  BY <1>1, TopOfStack, BelowTop DEF IInv, StackOK, Top, Rest
<1>4. /\ FrameOK(Top) /\ calls[o] # 0 /\ o \in ToSet(operations[t])
      /\ \A g \in Frame : In(g, Rest) => FrameOK(g) /\ (IsOf(g) => g.t # t)
  BY <1>1, <1>2, TopOfStack DEF FrameOK, ToSet
<1>5. o \in Ops
  BY <1>2, <1>4 DEF IInv, TypeOK, ToSet
<1>6. PICK f : f = Completing(t, i + 1, Top.canceled)
  OBVIOUS
<1>7. /\ f \in Frame /\ f.kind = "completing" /\ f.t = t /\ f.i = i + 1 /\ f.i >= 1
      /\ f.canceled = Top.canceled
  BY <1>2, <1>6 DEF Completing, Frame
<1>8. StackOK' /\ \A g : In(g, stack') <=> g = f \/ In(g, Rest)
  BY <1>1, <1>2, <1>3, <1>6, <1>7, Shapes, Replaced
<1> HIDE DEF t, i, o
<1>9. /\ completion' \in [Ops -> BOOLEAN] /\ ~completion'[o]
      /\ \A p \in Ops : p # o => completion'[p] = completion[p]
  BY <1>1, <1>5 DEF IInv, TypeOK
<1>10. TypeOK' /\ GroupTypeOK'
  BY <1>1, <1>9 DEF IInv, TypeOK, GroupTypeOK
<1>11. FramesOK'
  <2>1. ASSUME NEW g \in Frame, In(g, Rest) PROVE FrameOK(g)'
    <3>1. FrameOK(g) /\ g.kind # "waiting"
      BY <1>1, <1>4, <2>1, NobodyWaits
    <3>2. QED
      BY <1>1, <3>1, FrameStays
  <2>2. FrameOK(f)'
    BY <1>1, <1>4, <1>7 DEF FrameOK, t
  <2>3. QED
    BY <1>8, <2>1, <2>2 DEF FramesOK
<1>12. CurrentOK'
  <2>1. \A g \in Frame : g.kind \notin {"completing", "callback"} =>
          (In(g, stack') <=> In(g, stack))
    BY <1>1, <1>7, <1>8, TopOfStack
  <2>2. \A l \in Layers : /\ IsCanceling(l)' <=> IsCanceling(l)
                          /\ IsCommitting(l) => IsCommitting(l)'
    BY <2>1 DEF IsCanceling, IsCommitting
  <2>3. QED
    BY <1>1, <2>2, CurrentStays DEF IInv
<1>13. LayersOK' /\ GroupsOK' /\ ValuesOK'
  BY <1>1 DEF IInv, LayersOK, GroupsOK, ValuesOK
<1>14. OwnersOK'
  <2>1. \A u \in Transactions : \A p \in ToSet(operations[u]) : p \in Ops
    BY DEF IInv, TypeOK, ToSet
  <2>2. QED
    BY <1>1, <1>4, <1>9, <2>1 DEF IInv, OwnersOK
<1>15. CallsOK'
  <2>1. SUFFICES ASSUME NEW p \in Ops
                 PROVE  /\ calls[p] \in {0, 1}
                        /\ completion'[p] /\ calls[p] = 1 =>
                             \E g \in Frame : /\ In(g, stack') /\ g.kind = "callback"
                                              /\ operations[g.t][g.i] = p
    BY <1>1 DEF CallsOK
  <2>2. calls[p] \in {0, 1}
    BY DEF IInv, CallsOK
  <2>3. SUFFICES ASSUME completion'[p], calls[p] = 1
                 PROVE  \E g \in Frame : /\ In(g, stack') /\ g.kind = "callback"
                                         /\ operations[g.t][g.i] = p
    BY <2>2
  <2>4. p # o /\ completion[p]
    BY <1>9, <2>3
  <2>5. PICK g \in Frame : /\ In(g, stack) /\ g.kind = "callback"
                           /\ operations[g.t][g.i] = p
    BY <2>3, <2>4 DEF IInv, CallsOK
  <2>6. g # Top
    BY <2>4, <2>5 DEF t, i, o
  <2>7. QED
    BY <1>1, <1>8, <2>5, <2>6, TopOfStack
<1>16. QED
  BY <1>8, <1>10, <1>11, <1>12, <1>13, <1>14, <1>15 DEF IInv

\* After the last operation the transaction is complete and its layer forgets it.
LEMMA FinishCompleteOK ==
  ASSUME IInv, FinishComplete
  PROVE  IInv'
<1> DEFINE t == Top.t
           l == layerOf[t]
<1>1. /\ stack # <<>> /\ Top.kind = "completing"
      /\ state' = [state EXCEPT ![t] = "complete"]
      /\ layerTransactions' = [layerTransactions EXCEPT ![l] = @ \ {t}]
      /\ completed' = [completed EXCEPT ![t] = @ + 1]
      /\ stack' = Push(InHook(t), Rest)
      /\ UNCHANGED <<operations, layerOf, current, containers, block, value, completion>>
      /\ UNCHANGED <<calls, outstanding, awaiting, due, waiter>>
  BY DEF FinishComplete, Inside, Top, Push, Detach, opVars, grpVars
<1>2. Top \in Frame /\ IsOf(Top) /\ t \in Transactions
  BY <1>1, TopOfStack, FrameKinds
<1>3. Callbacks(Rest) /\ Rest \in Seq(Frame)
  BY <1>1, TopOfStack, BelowTop DEF IInv, StackOK, Top, Rest
<1>4. /\ state[t] \in {"committed", "canceled"} /\ operations[t] # <<>>
      /\ \A g \in Frame : In(g, Rest) =>
           FrameOK(g) /\ g.kind = "callback" /\ (IsOf(g) => g.t # t)
  <2>1. FrameOK(Top)
    BY <1>1, TopOfStack
  <2>2. \A g \in Frame : In(g, Rest) => g.kind = "callback"
    BY <1>3 DEF Callbacks, In
  <2>3. QED
    BY <1>1, <1>2, <2>1, <2>2, TopOfStack DEF FrameOK
<1>5. l \in Layers /\ t \in layerTransactions[l] /\ completed[t] = 0
  BY <1>2, <1>4 DEF IInv, LayersOK
<1>6. \A k \in Layers : ~IsCanceling(k) /\ ~IsCommitting(k)
  BY <1>1, <1>4, TopOfStack DEF IsCanceling, IsCommitting
<1>7. \A k \in Layers : current[k] # t
  <2>1. t # NoTransaction
    BY <1>2, AsyncTransactionAssumption DEF AsyncTransactionAssumption
  <2>2. QED
    BY <1>4, <1>6, <2>1 DEF IInv, CurrentOK
<1>8. /\ state'[t] = "complete" /\ completed'[t] = 1
      /\ \A u \in Transactions : u # t =>
           state'[u] = state[u] /\ completed'[u] = completed[u]
      /\ \A k \in Layers : layerTransactions'[k] = layerTransactions[k] \ {t}
  <2>1. /\ state'[t] = "complete" /\ completed'[t] = 1
        /\ \A u \in Transactions : u # t =>
             state'[u] = state[u] /\ completed'[u] = completed[u]
    BY <1>1, <1>2, <1>5 DEF IInv, TypeOK
  <2>2. \A k \in Layers : k # l => t \notin layerTransactions[k]
    BY <1>2 DEF IInv, LayersOK
  <2>3. \A k \in Layers :
          layerTransactions'[k] = IF k = l THEN layerTransactions[l] \ {t}
                                           ELSE layerTransactions[k]
    BY <1>1, <1>5 DEF IInv, TypeOK
  <2>4. QED
    BY <2>1, <2>2, <2>3
<1>9. TypeOK' /\ GroupTypeOK'
  <2>1. /\ state' \in [Transactions ->
                         {"none", "open", "committed", "canceled", "complete"}]
        /\ completed' \in [Transactions -> Nat]
        /\ layerTransactions' \in [Layers -> SUBSET Transactions]
    BY <1>1, <1>2, <1>5 DEF IInv, TypeOK
  <2>2. \A u \in Transactions : state'[u] = "none" =>
          operations[u] = <<>> /\ layerOf[u] = NoLayer /\ completed'[u] = 0
    BY <1>8 DEF IInv, TypeOK
  <2>3. QED
    BY <1>1, <2>1, <2>2 DEF IInv, TypeOK, GroupTypeOK
<1>10. PICK f : f = InHook(t)
  OBVIOUS
<1>11. f \in Frame /\ f.kind = "hook" /\ f.t = t
  BY <1>2, <1>10 DEF InHook, Frame
<1>12. StackOK' /\ \A g : In(g, stack') <=> g = f \/ In(g, Rest)
  <2>1. Shape(Push(f, Rest))
    BY <1>3, <1>11, Shapes
  <2>2. QED
    BY <1>1, <1>2, <1>10, <1>11, <2>1, Replaced
<1> HIDE DEF t, l
<1>13. FramesOK'
  <2>1. ASSUME NEW g \in Frame, In(g, Rest) PROVE FrameOK(g)'
    <3>1. /\ FrameOK(g) /\ g.kind = "callback"
          /\ IsOf(g) => g.t # t /\ g.t \in Transactions
      BY <1>4, <2>1, FrameKinds
    <3>2. QED
      BY <1>1, <1>8, <3>1, FrameStays
  <2>2. FrameOK(f)'
    BY <1>8, <1>11 DEF FrameOK
  <2>3. QED
    BY <1>12, <2>1, <2>2 DEF FramesOK
<1>14. CurrentOK'
  <2>1. \A k \in Layers : ~IsCanceling(k)'
    BY <1>4, <1>11, <1>12 DEF IsCanceling
  <2>2. \A k \in Layers : current[k] # NoTransaction => current[k] \in Transactions
    BY DEF IInv, TypeOK
  <2>3. QED
    BY <1>1, <1>6, <1>7, <1>8, <2>1, <2>2 DEF IInv, CurrentOK
<1>15. LayersOK'
  <2>1. \A k \in Layers : \A u \in layerTransactions[k] : u \in Transactions
    BY DEF IInv, TypeOK
  <2>2. QED
    BY <1>1, <1>8, <2>1 DEF IInv, LayersOK
<1>16. OwnersOK'
  BY <1>1 DEF IInv, OwnersOK
<1>17. GroupsOK'
  BY <1>1, <1>8 DEF IInv, GroupsOK
<1>18. ValuesOK'
  BY <1>1, <1>8 DEF IInv, ValuesOK
<1>19. CallsOK'
  <2>1. \A g \in Frame : g.kind = "callback" /\ In(g, stack) => In(g, stack')
    BY <1>1, <1>12, TopOfStack
  <2>2. QED
    BY <1>1, <2>1, CallsStay DEF IInv
<1>20. QED
  BY <1>9, <1>12, <1>13, <1>14, <1>15, <1>16, <1>17, <1>18, <1>19 DEF IInv

\* The layer forgets its current transaction; all of them are canceled.
LEMMA FinishCancelOK ==
  ASSUME IInv, FinishCancel
  PROVE  IInv'
<1> DEFINE l == Top.layer
<1>1. /\ stack # <<>> /\ Top.kind = "canceling" /\ stack' = Rest
      /\ current' = [current EXCEPT ![l] = NoTransaction]
      /\ state' = [t \in Transactions |->
                     IF t \in layerTransactions[l] THEN "canceled" ELSE state[t]]
      /\ UNCHANGED <<operations, layerOf, layerTransactions, containers>>
      /\ UNCHANGED <<block, value, completion, calls, completed>>
      /\ UNCHANGED <<outstanding, awaiting, due, waiter>>
  BY DEF FinishCancel, Inside, Top, opVars, callVars, grpVars
<1>2. Top \in Frame /\ l \in Layers
  BY <1>1, TopOfStack, FrameKinds
<1>3. Callbacks(Rest) /\ Rest \in Seq(Frame)
  BY <1>1, TopOfStack, BelowTop DEF IInv, StackOK, Top, Rest
<1>4. \A g \in Frame : In(g, Rest) => FrameOK(g) /\ g.kind = "callback"
  BY <1>1, <1>3, TopOfStack DEF Callbacks, In
<1>5. \A t \in Transactions :
        state'[t] = IF t \in layerTransactions[l] THEN "canceled" ELSE state[t]
  BY <1>1
<1>6. \A k \in Layers : current'[k] = IF k = l THEN NoTransaction ELSE current[k]
  BY <1>1, <1>2 DEF IInv, TypeOK
<1>7. \A t \in Transactions : t \in layerTransactions[l] =>
        layerOf[t] = l /\ state[t] \in {"open", "committed", "canceled"}
  BY <1>2 DEF IInv, LayersOK
<1> HIDE DEF l
<1>8. TypeOK' /\ GroupTypeOK'
  <2>1. /\ state' \in [Transactions ->
                         {"none", "open", "committed", "canceled", "complete"}]
        /\ current' \in [Layers -> Transactions \cup {NoTransaction}]
    BY <1>1, <1>2 DEF IInv, TypeOK
  <2>2. \A u \in Transactions : state'[u] = "none" => state[u] = "none"
    BY <1>5
  <2>3. QED
    BY <1>1, <2>1, <2>2 DEF IInv, TypeOK, GroupTypeOK
<1>9. StackOK'
  BY <1>1, <1>3, Left DEF Shape
<1>10. FramesOK'
  <2>1. ASSUME NEW g \in Frame, In(g, Rest) PROVE FrameOK(g)'
    <3>1. FrameOK(g) /\ g.kind = "callback" /\ (IsOf(g) => g.t \in Transactions)
      BY <1>4, <2>1, FrameKinds
    <3>2. QED
      BY <1>1, <1>5, <3>1, FrameStays
  <2>2. QED
    BY <1>1, <2>1 DEF FramesOK
<1>11. CurrentOK'
  <2>1. \A k \in Layers : k # l => ~IsCanceling(k)
    BY <1>1, <1>4, TopOfStack DEF IsCanceling, l
  <2>2. \A k \in Layers : ~IsCanceling(k)' /\ ~IsCommitting(k)
    BY <1>1, <1>4, TopOfStack DEF IsCanceling, IsCommitting
  <2>3. ASSUME NEW k \in Layers, current'[k] # NoTransaction
        PROVE  /\ layerOf[current'[k]] = k /\ k \in containers
               /\ state'[current'[k]] = "open"
    <3>1. k # l /\ current'[k] = current[k] /\ current[k] \in Transactions
      BY <1>6, <2>3 DEF IInv, TypeOK
    <3>2. /\ layerOf[current[k]] = k /\ k \in containers
          /\ state[current[k]] = "open"
      BY <2>1, <2>2, <2>3, <3>1 DEF IInv, CurrentOK
    <3>3. QED
      BY <1>5, <1>7, <3>1, <3>2
  <2>4. ASSUME NEW t \in Transactions, state'[t] = "open"
        PROVE  /\ layerOf[t] \in Layers /\ current'[layerOf[t]] = t
               /\ t \in layerTransactions[layerOf[t]]
    <3>1. state[t] = "open" /\ t \notin layerTransactions[l]
      BY <1>5, <2>4
    <3>2. /\ layerOf[t] \in Layers /\ current[layerOf[t]] = t
          /\ t \in layerTransactions[layerOf[t]]
      BY <3>1 DEF IInv, CurrentOK
    <3>3. QED
      BY <1>6, <3>1, <3>2
  <2>5. QED
    BY <1>1, <2>2, <2>3, <2>4 DEF CurrentOK
<1>12. LayersOK'
  <2>1. \A k \in Layers : \A u \in layerTransactions[k] : u \in Transactions
    BY DEF IInv, TypeOK
  <2>2. \A t \in Transactions : state'[t] \in {"committed", "canceled"} =>
          \/ state[t] \in {"committed", "canceled"}
          \/ t \in layerTransactions[l]
    BY <1>5
  <2>3. \A k \in Layers : \A t \in layerTransactions[k] :
          state'[t] \in {"open", "committed", "canceled"}
    BY <1>5, <2>1 DEF IInv, LayersOK
  <2>4. \A t \in Transactions :
          state'[t] \in {"committed", "canceled"} /\ operations[t] # <<>> =>
            layerOf[t] \in Layers /\ t \in layerTransactions[layerOf[t]]
    BY <1>2, <1>7, <2>2 DEF IInv, LayersOK
  <2>5. QED
    BY <1>1, <2>3, <2>4 DEF IInv, LayersOK
<1>13. OwnersOK'
  BY <1>1 DEF IInv, OwnersOK
<1>14. GroupsOK'
  BY <1>1, <1>5 DEF IInv, GroupsOK
<1>15. ValuesOK'
  BY <1>1, <1>5 DEF IInv, ValuesOK
<1>16. CallsOK'
  <2>1. \A g \in Frame : g.kind = "callback" /\ In(g, stack) => In(g, stack')
    BY <1>1, TopOfStack
  <2>2. QED
    BY <1>1, <2>1, CallsStay DEF IInv
<1>17. QED
  BY <1>8, <1>9, <1>10, <1>11, <1>12, <1>13, <1>14, <1>15, <1>16 DEF IInv

\* The commit of an open transaction from below f, the container's or the
\* cancellation's method that calls it.
LEMMA CommitOK ==
  ASSUME IInv, NEW t \in Transactions, state[t] = "open",
         NEW f \in Frame, NEW base \in Seq(Frame), Commit(t, Push(f, base)),
         \/ f.kind = "committing" /\ BelowCommit(base)
         \/ f.kind = "canceling" /\ Callbacks(base),
         Unique(base), \A g \in Frame : In(g, base) => In(g, stack),
         \A g \in Frame : g.kind = "callback" /\ In(g, stack) => In(g, base),
         containers' = containers,
         current' \in [Layers -> Transactions \cup {NoTransaction}]
  PROVE  /\ TypeOK' /\ GroupTypeOK' /\ StackOK' /\ FramesOK'
         /\ LayersOK' /\ OwnersOK' /\ GroupsOK' /\ ValuesOK' /\ CallsOK'
         /\ \A g \in Frame : g.kind # "hook" =>
              (In(g, stack') <=> g = f \/ In(g, base))
         /\ state'[t] = "committed" /\ layerOf' = layerOf
         /\ \A u \in Transactions : u # t => state'[u] = state[u]
         /\ \A k \in Layers : \A u \in Transactions : u # t =>
              (u \in layerTransactions'[k] <=> u \in layerTransactions[k])
<1> DEFINE l == layerOf[t]
           h == InHook(t)
<1>1. /\ state' = [state EXCEPT ![t] = "committed"]
      /\ \/ /\ operations[t] = <<>>
            /\ layerTransactions' = [layerTransactions EXCEPT ![l] = @ \ {t}]
            /\ completed' = [completed EXCEPT ![t] = @ + 1]
            /\ stack' = Push(h, Push(f, base))
            /\ UNCHANGED <<outstanding, awaiting, due, waiter>>
         \/ /\ operations[t] # <<>> /\ stack' = Push(f, base)
            /\ \/ /\ outstanding[t] = {} /\ due' = due \cup {t} /\ awaiting' = awaiting
               \/ awaiting' = [awaiting EXCEPT ![t] = @ \cup {t}] /\ due' = due
            /\ UNCHANGED <<outstanding, waiter, layerTransactions, completed>>
      /\ UNCHANGED <<operations, layerOf, block, value, completion, calls>>
  BY DEF Commit, Detach, Group!Notify, Group!Empty, Push, opVars, grpVars
<1>2. /\ l \in Layers /\ t \in layerTransactions[l] /\ completed[t] = 0
      /\ \A k \in Layers : k # l => t \notin layerTransactions[k]
  BY DEF IInv, CurrentOK, LayersOK
<1>3. /\ state'[t] = "committed"
      /\ \A u \in Transactions : u # t => state'[u] = state[u]
  BY <1>1 DEF IInv, TypeOK
<1>4. /\ \A k \in Layers : \A u \in Transactions : u # t =>
           (u \in layerTransactions'[k] <=> u \in layerTransactions[k])
      /\ \A u \in Transactions : u # t => completed'[u] = completed[u]
      /\ completed'[t] \in {0, 1}
      /\ \A k \in Layers : t \in layerTransactions'[k] => k = l /\ completed'[t] = 0
      /\ operations[t] # <<>> => t \in layerTransactions'[l]
      /\ layerTransactions' \in [Layers -> SUBSET Transactions]
      /\ completed' \in [Transactions -> Nat]
  <2>1. CASE /\ operations[t] = <<>>
             /\ layerTransactions' = [layerTransactions EXCEPT ![l] = @ \ {t}]
             /\ completed' = [completed EXCEPT ![t] = @ + 1]
    BY <1>2, <2>1 DEF IInv, TypeOK
  <2>2. CASE UNCHANGED <<layerTransactions, completed>>
    BY <1>2, <2>2 DEF IInv, TypeOK
  <2>3. QED
    BY <1>1, <2>1, <2>2
<1>5. /\ awaiting' \in [Transactions -> SUBSET Transactions] /\ due' \subseteq Transactions
      /\ outstanding' = outstanding /\ waiter' = waiter
      /\ \A u \in Transactions : u \in due' =>
           u \in due \/ (u = t /\ operations[t] # <<>> /\ outstanding[t] = {})
      /\ \A u \in Transactions :
           awaiting'[u] # awaiting[u] => u = t /\ operations[t] # <<>>
      /\ awaiting'[t] \subseteq awaiting[t] \cup {t}
  <2>1. CASE UNCHANGED <<awaiting, due>> /\ UNCHANGED <<outstanding, waiter>>
    BY <2>1 DEF IInv, GroupTypeOK
  <2>2. CASE /\ operations[t] # <<>> /\ outstanding[t] = {} /\ due' = due \cup {t}
             /\ awaiting' = awaiting /\ UNCHANGED <<outstanding, waiter>>
    BY <2>2 DEF IInv, GroupTypeOK
  <2>3. CASE /\ operations[t] # <<>> /\ awaiting' = [awaiting EXCEPT ![t] = @ \cup {t}]
             /\ due' = due /\ UNCHANGED <<outstanding, waiter>>
    BY <2>3 DEF IInv, GroupTypeOK
  <2>4. QED
    BY <1>1, <2>1, <2>2, <2>3
<1>6. TypeOK' /\ GroupTypeOK'
  <2>1. state' \in [Transactions -> {"none", "open", "committed", "canceled", "complete"}]
    BY <1>1 DEF IInv, TypeOK
  <2>2. \A u \in Transactions : state'[u] = "none" =>
          operations[u] = <<>> /\ layerOf[u] = NoLayer /\ completed'[u] = 0
    BY <1>3, <1>4 DEF IInv, TypeOK
  <2>3. QED
    BY <1>1, <1>4, <1>5, <2>1, <2>2 DEF IInv, TypeOK, GroupTypeOK
<1>7. h \in Frame /\ h.kind = "hook" /\ h.t = t
  BY DEF InHook, Frame
<1>8. ~IsOf(f) /\ f.kind \notin {"hook", "callback"}
  BY FrameKinds
<1>9. /\ Push(f, base) \in Seq(Frame) /\ Unique(Push(f, base))
      /\ \A g : In(g, Push(f, base)) <=> g = f \/ In(g, base)
  BY <1>8, PushIndices, PushIn, PushUnique
<1> HIDE DEF h
<1>10. operations[t] = <<>> =>
         \A g \in Frame : In(g, stack) /\ IsOf(g) => g.t # t
  <2>1. \A g \in Frame : In(g, stack) => FrameOK(g)
    BY DEF IInv, FramesOK
  <2>2. QED
    BY <2>1, FrameKinds DEF FrameOK, Kinds
<1>11. /\ StackOK'
       /\ \A g \in Frame : In(g, stack') =>
            g = f \/ In(g, base) \/ (g = h /\ operations[t] = <<>>)
       /\ \A g \in Frame : g.kind # "hook" => (In(g, stack') <=> g = f \/ In(g, base))
  <2>1. CASE operations[t] = <<>> /\ stack' = Push(h, Push(f, base))
    <3>1. /\ stack' \in Seq(Frame)
          /\ \A g : In(g, stack') <=> g = h \/ In(g, Push(f, base))
      BY <1>7, <1>9, <2>1, PushIndices, PushIn
    <3>2. Unique(stack')
      BY <1>7, <1>8, <1>9, <1>10, <2>1, PushUnique
    <3>3. Shape(stack')
      BY <1>7, <2>1, Shapes
    <3>4. QED
      BY <1>7, <1>9, <2>1, <3>1, <3>2, <3>3 DEF StackOK
  <2>2. CASE stack' = Push(f, base)
    <3>1. Shape(stack')
      <4>1. CASE f.kind = "committing" /\ BelowCommit(base)
        BY <2>2, <4>1, Shapes
      <4>2. CASE Callbacks(base)
        BY <2>2, <4>2, Shapes
      <4>3. QED
        BY <4>1, <4>2
    <3>2. QED
      BY <1>9, <2>2, <3>1 DEF StackOK
  <2>3. QED
    BY <1>1, <2>1, <2>2
<1> HIDE DEF l
<1>12. FramesOK'
  <2>1. ASSUME NEW g \in Frame, In(g, base) PROVE FrameOK(g)'
    <3>1. FrameOK(g) /\ (IsOf(g) => g.t \in Transactions)
      BY <2>1, FrameKinds DEF IInv, FramesOK
    <3>2. IsOf(g) => state'[g.t] = state[g.t] \/ state'[g.t] \in {"committed", "canceled"}
      BY <1>3, <3>1
    <3>3. QED
      BY <1>1, <1>5, <3>1, <3>2, FrameStays
  <2>2. FrameOK(f)'
    BY <1>8 DEF FrameOK
  <2>3. FrameOK(h)'
    BY <1>3, <1>7 DEF FrameOK
  <2>4. QED
    BY <1>11, <2>1, <2>2, <2>3 DEF FramesOK
<1>13. LayersOK'
  <2>1. ASSUME NEW k \in Layers, NEW u \in layerTransactions'[k]
        PROVE  /\ layerOf[u] = k /\ completed'[u] = 0
               /\ state'[u] \in {"open", "committed", "canceled"}
    <3>1. u \in Transactions
      BY <1>4, <2>1
    <3>2. CASE u = t
      BY <1>3, <1>4, <2>1, <3>2 DEF l
    <3>3. CASE u # t
      BY <1>3, <1>4, <2>1, <3>1, <3>3 DEF IInv, LayersOK
    <3>4. QED
      BY <3>2, <3>3
  <2>2. ASSUME NEW u \in Transactions
        PROVE  /\ completed'[u] \in {0, 1}
               /\ state'[u] \in {"committed", "canceled"} /\ operations[u] # <<>> =>
                    layerOf[u] \in Layers /\ u \in layerTransactions'[layerOf[u]]
    <3>1. CASE u = t
      BY <1>2, <1>4, <3>1 DEF l
    <3>2. CASE u # t
      BY <1>3, <1>4, <3>2 DEF IInv, LayersOK
    <3>3. QED
      BY <3>1, <3>2
  <2>3. QED
    BY <1>1, <2>1, <2>2 DEF LayersOK
<1>14. OwnersOK'
  BY <1>1 DEF IInv, OwnersOK
<1>15. GroupsOK'
  <2>1. GroupsOK
    BY DEF IInv
  <2>2. ASSUME NEW u \in Transactions, u \in due' \/ awaiting'[u] # {}
        PROVE  state'[u] \notin {"none", "open"} /\ operations[u] # <<>>
    <3>1. \/ u = t /\ operations[t] # <<>>
          \/ u \in due \/ awaiting[u] # {}
      BY <1>5, <2>2
    <3>2. QED
      BY <1>3, <2>1, <3>1 DEF GroupsOK
  <2>3. \A u \in due' : outstanding[u] = {}
    BY <1>5, <2>1 DEF GroupsOK
  <2>4. \A u \in Transactions : awaiting'[u] \subseteq {u}
    BY <1>5, <2>1 DEF GroupsOK
  <2>5. QED
    BY <1>1, <1>5, <2>1, <2>2, <2>3, <2>4 DEF GroupsOK
<1>16. ValuesOK'
  BY <1>1, <1>3 DEF IInv, ValuesOK
<1>17. CallsOK'
  <2>1. \A g \in Frame : g.kind = "callback" /\ In(g, stack) => In(g, stack')
    BY <1>11
  <2>2. QED
    BY <1>1, <2>1, CallsStay DEF IInv
<1>18. QED
  BY <1>1, <1>3, <1>4, <1>6, <1>11, <1>12, <1>13, <1>14, <1>15, <1>16, <1>17

\* One container of the main group's commit.
LEMMA CommitContainerOK ==
  ASSUME IInv, CommitContainer
  PROVE  IInv'
<1>1. PICK l \in Top.layers :
        /\ current' = [current EXCEPT ![l] = NoTransaction]
        /\ IF current[l] = NoTransaction
             THEN /\ stack' = Push(Committing(Top.layers \ {l}), Rest)
                  /\ UNCHANGED <<txVars, layerTransactions, opVars, callVars, grpVars>>
             ELSE Commit(current[l], Push(Committing(Top.layers \ {l}), Rest))
  BY DEF CommitContainer, Push
<1>2. /\ stack # <<>> /\ Top.kind = "committing" /\ containers' = containers
      /\ Top \in Frame /\ Top.layers \subseteq Layers /\ l \in Layers
  <2>1. stack # <<>> /\ Top.kind = "committing" /\ containers' = containers
    BY DEF CommitContainer, Inside, Top
  <2>2. QED
    BY <1>1, <2>1, TopOfStack, FrameKinds
<1>3. BelowCommit(Rest) /\ Rest \in Seq(Frame)
  BY <1>2, TopOfStack, BelowTop DEF IInv, StackOK, Top, Rest
<1>4. PICK f : f = Committing(Top.layers \ {l})
  OBVIOUS
<1>5. f \in Frame /\ f.kind = "committing" /\ f.layers = Top.layers \ {l}
  BY <1>2, <1>4 DEF Committing, Frame
<1>6. \A k \in Layers : ~IsCanceling(k)
  <2>1. \A g \in Frame : In(g, Rest) => g.kind # "canceling"
    <3>1. CASE Callbacks(Rest)
      BY <3>1 DEF Callbacks, In
    <3>2. CASE Rest # <<>> /\ Head(Rest).kind = "waitCommitted" /\ Callbacks(Tail(Rest))
      <4>1. \A g \in Frame : In(g, Rest) => g = Head(Rest) \/ In(g, Tail(Rest))
        BY <1>3, <3>2, Popped, PushIn
      <4>2. QED
        BY <3>2, <4>1 DEF Callbacks, In
    <3>3. QED
      BY <1>3, <3>1, <3>2 DEF BelowCommit
  <2>2. QED
    BY <1>2, <2>1, TopOfStack DEF IsCanceling
<1>7. /\ \A g \in Frame : In(g, Rest) => In(g, stack)
      /\ \A g \in Frame : In(g, stack) => g = Top \/ In(g, Rest)
  BY <1>2, TopOfStack
<1>8. CASE current[l] = NoTransaction
  <2>1. stack' = Push(f, Rest) /\ current' = current /\ StackStep
    BY <1>1, <1>2, <1>4, <1>8 DEF StackStep, IInv, TypeOK, GroupTypeOK, txVars,
       opVars, callVars, grpVars
  <2>2. StackOK' /\ \A g : In(g, stack') <=> g = f \/ In(g, Rest)
    <3>1. Shape(Push(f, Rest)) /\ ~IsOf(f)
      BY <1>3, <1>5, Shapes, FrameKinds
    <3>2. QED
      BY <1>2, <1>5, <2>1, <3>1, Replaced
  <2>3. \A g \in Frame : In(g, stack') => FrameOK(g)'
    <3>1. FrameOK(f)'
      BY <1>5 DEF FrameOK
    <3>2. QED
      BY <1>2, <2>1, <2>2, <3>1, TopOfStack, FrameKept, NobodyWaits
  <2>4. \A g \in Frame : g.kind # "committing" => (In(g, stack') <=> In(g, stack))
    BY <1>2, <1>5, <1>7, <2>2
  <2>5. \A k \in Layers : IsCanceling(k)' <=> IsCanceling(k)
    BY <2>4 DEF IsCanceling
  <2>6. ASSUME NEW k \in Layers, k # l, IsCommitting(k) PROVE IsCommitting(k)'
    BY <1>5, <1>7, <2>2, <2>6 DEF IsCommitting
  <2>7. FramesOK' /\ CurrentOK'
    <3>1. FramesOK'
      BY <2>3 DEF FramesOK
    <3>2. CurrentOK'
      BY <1>2, <1>8, <2>1, <2>5, <2>6 DEF IInv, CurrentOK, StackStep
    <3>3. QED
      BY <3>1, <3>2
  <2>8. TypeOK' /\ GroupTypeOK'
    BY <2>1 DEF IInv, StackStep, TypeOK, GroupTypeOK
  <2>9. LayersOK' /\ OwnersOK'
    BY <2>1 DEF IInv, StackStep, LayersOK, OwnersOK
  <2>10. GroupsOK' /\ ValuesOK'
    BY <2>1 DEF IInv, StackStep, GroupsOK, ValuesOK
  <2>11. CallsOK'
    BY <2>1, <2>4, CallsStay DEF IInv, StackStep
  <2>12. QED
    BY <2>2, <2>7, <2>8, <2>9, <2>10, <2>11 DEF IInv
<1>9. CASE current[l] # NoTransaction
  <2>1. PICK t : t = current[l]
    OBVIOUS
  <2>2. t \in Transactions /\ state[t] = "open" /\ layerOf[t] = l
    BY <1>2, <1>6, <1>9, <2>1 DEF IInv, TypeOK, CurrentOK
  <2>3. Commit(t, Push(f, Rest))
    BY <1>1, <1>4, <1>9, <2>1
  <2>4. current' \in [Layers -> Transactions \cup {NoTransaction}]
    BY <1>1 DEF IInv, TypeOK
  <2>5. /\ Unique(Rest)
        /\ \A g \in Frame : g.kind = "callback" /\ In(g, stack) => In(g, Rest)
    BY <1>2, <1>7, TopOfStack
  <2>6. /\ TypeOK' /\ GroupTypeOK' /\ StackOK' /\ FramesOK'
        /\ LayersOK' /\ OwnersOK' /\ GroupsOK' /\ ValuesOK' /\ CallsOK'
        /\ \A g \in Frame : g.kind # "hook" =>
             (In(g, stack') <=> g = f \/ In(g, Rest))
        /\ state'[t] = "committed" /\ layerOf' = layerOf
        /\ \A u \in Transactions : u # t => state'[u] = state[u]
        /\ \A k \in Layers : \A u \in Transactions : u # t =>
             (u \in layerTransactions'[k] <=> u \in layerTransactions[k])
    BY <1>2, <1>3, <1>5, <1>7, <2>2, <2>3, <2>4, <2>5, CommitOK
  <2>7. \A k \in Layers : ~IsCanceling(k)'
    <3>1. \A g \in Frame : In(g, stack') /\ g.kind = "canceling" => In(g, stack)
      BY <1>5, <1>7, <2>6
    <3>2. QED
      BY <1>6, <3>1 DEF IsCanceling
  <2>8. ASSUME NEW k \in Layers, k # l, IsCommitting(k) PROVE IsCommitting(k)'
    BY <1>5, <1>7, <2>6, <2>8 DEF IsCommitting
  <2>9. \A k \in Layers : current'[k] = IF k = l THEN NoTransaction ELSE current[k]
    BY <1>1, <1>2 DEF IInv, TypeOK
  <2>10. CurrentOK'
    <3>1. ASSUME NEW k \in Layers, current'[k] # NoTransaction
          PROVE  /\ layerOf[current'[k]] = k /\ (k \in containers \/ IsCommitting(k)')
                 /\ state'[current'[k]] = "open" /\ layerOf[current'[k]] = k
      <4>1. k # l /\ current'[k] = current[k] /\ current[k] \in Transactions
        BY <2>9, <3>1 DEF IInv, TypeOK
      <4>2. /\ layerOf[current[k]] = k /\ (k \in containers \/ IsCommitting(k))
            /\ state[current[k]] = "open" /\ layerOf[current[k]] = k
        BY <1>6, <3>1, <4>1 DEF IInv, CurrentOK
      <4>3. QED
        BY <2>2, <2>6, <2>8, <4>1, <4>2
    <3>2. ASSUME NEW u \in Transactions, state'[u] = "open"
          PROVE  /\ layerOf[u] \in Layers /\ current'[layerOf[u]] = u
                 /\ u \in layerTransactions'[layerOf[u]]
      <4>1. u # t /\ state[u] = "open"
        BY <2>6, <3>2
      <4>2. /\ layerOf[u] \in Layers /\ current[layerOf[u]] = u
            /\ u \in layerTransactions[layerOf[u]]
        BY <4>1 DEF IInv, CurrentOK
      <4>3. QED
        BY <2>1, <2>6, <2>9, <4>1, <4>2
    <3>3. QED
      BY <1>2, <2>6, <2>7, <3>1, <3>2 DEF CurrentOK
  <2>11. QED
    BY <2>6, <2>10 DEF IInv
<1>10. QED
  BY <1>8, <1>9

-----------------------------------------------------------------------------
(* The steps of client code. *)

\* A cancellation commits the current transaction first.
LEMMA CancelAsyncTransactionsOK ==
  ASSUME IInv, NEW l \in Layers, CancelAsyncTransactions(l)
  PROVE  IInv'
<1>1. /\ ClientRuns /\ current' = current /\ containers' = containers
      /\ IF current[l] = NoTransaction
           THEN /\ stack' = Push(Canceling(l), stack)
                /\ UNCHANGED <<txVars, layerTransactions, opVars, callVars, grpVars>>
           ELSE Commit(current[l], Push(Canceling(l), stack))
  BY DEF CancelAsyncTransactions, Push
<1>2. /\ stack \in Seq(Frame) /\ Unique(stack) /\ Callbacks(stack)
      /\ \A g \in Frame : In(g, stack) => g.kind = "callback"
  BY <1>1, ClientStack DEF IInv, StackOK
<1>3. PICK f : f = Canceling(l)
  OBVIOUS
<1>4. f \in Frame /\ f.kind = "canceling" /\ f.layer = l /\ ~IsOf(f)
  BY <1>3 DEF Canceling, Frame, IsOf
<1>5. \A k \in Layers : ~IsCanceling(k) /\ ~IsCommitting(k)
  BY <1>2 DEF IsCanceling, IsCommitting
<1>6. CASE current[l] = NoTransaction
  <2>1. stack' = Push(f, stack) /\ StackStep
    BY <1>1, <1>3, <1>6 DEF StackStep, IInv, GroupTypeOK, txVars, opVars, callVars,
       grpVars
  <2>2. /\ stack' \in Seq(Frame) /\ \A g : In(g, stack') <=> g = f \/ In(g, stack)
        /\ StackOK'
    BY <1>2, <1>4, <2>1, PushIndices, PushIn, PushUnique, Shapes DEF StackOK
  <2>3. \A g \in Frame : In(g, stack') => FrameOK(g)'
    <3>1. FrameOK(f)'
      BY <1>4 DEF FrameOK
    <3>2. \A g \in Frame : In(g, stack) => FrameOK(g)'
      BY <1>2, <2>1, FrameKept DEF IInv, FramesOK
    <3>3. QED
      BY <2>2, <3>1, <3>2
  <2>4. \A g \in Frame : g.kind = "callback" => (In(g, stack') <=> In(g, stack))
    BY <1>4, <2>2
  <2>5. \A k \in Layers : k # l => ~IsCanceling(k)'
    BY <1>2, <1>4, <2>2 DEF IsCanceling
  <2>6. QED
    BY <1>1, <1>5, <1>6, <2>1, <2>2, <2>3, <2>4, <2>5, StackStepOK
<1>7. CASE current[l] # NoTransaction
  <2>1. PICK t : t = current[l]
    OBVIOUS
  <2>2. t \in Transactions /\ state[t] = "open" /\ layerOf[t] = l
    BY <1>5, <1>7, <2>1 DEF IInv, TypeOK, CurrentOK
  <2>3. Commit(t, Push(f, stack))
    BY <1>1, <1>3, <1>7, <2>1
  <2>4. current' \in [Layers -> Transactions \cup {NoTransaction}]
    BY <1>1 DEF IInv, TypeOK
  <2>5. /\ TypeOK' /\ GroupTypeOK' /\ StackOK' /\ FramesOK'
        /\ LayersOK' /\ OwnersOK' /\ GroupsOK' /\ ValuesOK' /\ CallsOK'
        /\ \A g \in Frame : g.kind # "hook" =>
             (In(g, stack') <=> g = f \/ In(g, stack))
        /\ state'[t] = "committed" /\ layerOf' = layerOf
        /\ \A u \in Transactions : u # t => state'[u] = state[u]
        /\ \A k \in Layers : \A u \in Transactions : u # t =>
             (u \in layerTransactions'[k] <=> u \in layerTransactions[k])
    BY <1>1, <1>2, <1>4, <2>2, <2>3, <2>4, CommitOK
  <2>6. IsCanceling(l)'
    BY <1>4, <2>5 DEF IsCanceling
  <2>7. ASSUME NEW k \in Layers, k # l PROVE ~IsCanceling(k)'
    <3>1. \A g \in Frame : In(g, stack') /\ g.kind = "canceling" => g.layer = l
      BY <1>2, <1>4, <2>5
    <3>2. QED
      BY <2>7, <3>1 DEF IsCanceling
  <2>8. CurrentOK'
    <3>1. ASSUME NEW k \in Layers, current[k] # NoTransaction
          PROVE  /\ layerOf[current[k]] = k /\ k \in containers
                 /\ state'[current[k]] = IF k = l THEN "committed" ELSE "open"
      <4>1. current[k] \in Transactions
        BY <3>1 DEF IInv, TypeOK
      <4>2. layerOf[current[k]] = k /\ k \in containers /\ state[current[k]] = "open"
        BY <1>5, <3>1 DEF IInv, CurrentOK
      <4>3. CASE k = l
        BY <2>1, <2>5, <4>2, <4>3
      <4>4. CASE k # l
        BY <2>2, <2>5, <4>1, <4>2, <4>4
      <4>5. QED
        BY <4>3, <4>4
    <3>2. ASSUME NEW u \in Transactions, state'[u] = "open"
          PROVE  /\ layerOf[u] \in Layers /\ current[layerOf[u]] = u
                 /\ u \in layerTransactions'[layerOf[u]]
      BY <2>5, <3>2 DEF IInv, CurrentOK
    <3>3. QED
      BY <1>1, <2>5, <2>6, <2>7, <3>1, <3>2 DEF CurrentOK
  <2>9. QED
    BY <2>5, <2>8 DEF IInv
<1>8. QED
  BY <1>6, <1>7

\* The layer has an open transaction: the one it had or one that was none.
IsOpened(l, t) ==
  /\ (state[t] = "none" /\ operations[t] = <<>>) \/ state[t] = "open"
  /\ state' \in [Transactions ->
                   {"none", "open", "committed", "canceled", "complete"}]
  /\ layerOf' \in [Transactions -> Layers \cup {NoLayer}]
  /\ current' \in [Layers -> Transactions \cup {NoTransaction}]
  /\ layerTransactions' \in [Layers -> SUBSET Transactions]
  /\ state'[t] = "open" /\ layerOf'[t] = l /\ completed[t] = 0
  /\ \A u \in Transactions : u # t =>
       state'[u] = state[u] /\ layerOf'[u] = layerOf[u]
  /\ current[l] \in {NoTransaction, t}
  /\ \A k \in Layers : current'[k] = IF k = l THEN t ELSE current[k]
  /\ \A k \in Layers : layerTransactions'[k] =
       IF k = l THEN layerTransactions[l] \cup {t} ELSE layerTransactions[k]
  /\ \A k \in Layers : k # l => current[k] # t /\ t \notin layerTransactions[k]

\* What main is inside while client code displays, also that of a hook.
LEMMA DisplayStack ==
  ASSUME IInv, ~HooksDisplayAll, NEW l \in Layers, NEW t \in Transactions,
         Displays(l, t)
  PROVE  \A f \in Frame : In(f, stack) =>
           /\ f.kind # "waiting"
           /\ f.kind = "canceling" => f.layer # l
           /\ f.kind = "waitCommitted" => f.t # t
<1>1. CASE ClientRuns
  BY <1>1, ClientStack
<1>2. CASE ~ClientRuns
  <2>1. /\ stack # <<>> /\ Top.kind = "hook"
        /\ Canceling(l) \notin ToSet(stack) /\ WaitCommitted(t) \notin ToSet(stack)
    BY <1>2 DEF Displays, Inside, Top
  <2>2. ASSUME NEW f \in Frame, In(f, stack)
        PROVE  f.kind # "waiting" /\ f \in ToSet(stack)
    <3>1. f \in ToSet(stack)
      BY <2>2 DEF In, ToSet
    <3>2. f = Top \/ In(f, Rest)
      BY <2>1, <2>2, TopOfStack
    <3>3. QED
      BY <2>1, <3>1, <3>2, NobodyWaits
  <2>3. ASSUME NEW f \in Frame, f.kind = "canceling", f.layer = l
        PROVE  f = Canceling(l)
    BY <2>3 DEF Frame, Canceling
  <2>4. ASSUME NEW f \in Frame, f.kind = "waitCommitted", f.t = t
        PROVE  f = WaitCommitted(t)
    BY <2>4 DEF Frame, WaitCommitted
  <2>5. QED
    BY <2>1, <2>2, <2>3, <2>4
<1>3. QED
  BY <1>1, <1>2

LEMMA Opened ==
  ASSUME IInv, ~HooksDisplayAll, NEW l \in Layers, NEW t \in Transactions,
         Displays(l, t), OpenTransaction(l, t)
  PROVE  IsOpened(l, t)
<1>1. ~IsCanceling(l)
  BY DisplayStack DEF IsCanceling
<1>2. t # NoTransaction
  BY AsyncTransactionAssumption DEF AsyncTransactionAssumption
<1>3. CASE current[l] # NoTransaction
  <2>1. /\ t = current[l] /\ layerOf' = layerOf
        /\ UNCHANGED <<state, current, layerTransactions>>
    BY <1>3 DEF OpenTransaction
  <2>2. state[t] = "open" /\ layerOf[t] = l
    BY <1>1, <1>3, <2>1 DEF IInv, CurrentOK
  <2>3. t \in layerTransactions[l] /\ completed[t] = 0
    BY <2>2 DEF IInv, CurrentOK, LayersOK
  <2>4. \A k \in Layers : k # l => current[k] # t /\ t \notin layerTransactions[k]
    BY <1>2, <2>2 DEF IInv, CurrentOK, LayersOK
  <2>5. \A k \in Layers : /\ current'[k] = IF k = l THEN t ELSE current[k]
                          /\ layerTransactions'[k] =
                               IF k = l THEN layerTransactions[l] \cup {t}
                                        ELSE layerTransactions[k]
    BY <2>1, <2>3
  <2>6. QED
    BY <2>1, <2>2, <2>3, <2>4, <2>5 DEF IInv, TypeOK, IsOpened
<1>4. CASE current[l] = NoTransaction
  <2>1. /\ state[t] = "none"
        /\ state' = [state EXCEPT ![t] = "open"]
        /\ layerOf' = [layerOf EXCEPT ![t] = l]
        /\ current' = [current EXCEPT ![l] = t]
        /\ layerTransactions' = [layerTransactions EXCEPT ![l] = @ \cup {t}]
    BY <1>4 DEF OpenTransaction
  <2>2. operations[t] = <<>> /\ completed[t] = 0
    BY <2>1 DEF IInv, TypeOK
  <2>3. \A k \in Layers : current[k] # t /\ t \notin layerTransactions[k]
    BY <1>2, <2>1 DEF IInv, CurrentOK, LayersOK
  <2>4. /\ state' \in [Transactions ->
                         {"none", "open", "committed", "canceled", "complete"}]
        /\ layerOf' \in [Transactions -> Layers \cup {NoLayer}]
        /\ current' \in [Layers -> Transactions \cup {NoTransaction}]
        /\ layerTransactions' \in [Layers -> SUBSET Transactions]
    BY <2>1 DEF IInv, TypeOK
  <2>5. /\ state'[t] = "open" /\ layerOf'[t] = l
        /\ \A u \in Transactions : u # t =>
             state'[u] = state[u] /\ layerOf'[u] = layerOf[u]
    BY <2>1 DEF IInv, TypeOK
  <2>6. \A k \in Layers : /\ current'[k] = IF k = l THEN t ELSE current[k]
                          /\ layerTransactions'[k] =
                               IF k = l THEN layerTransactions[l] \cup {t}
                                        ELSE layerTransactions[k]
    BY <2>1 DEF IInv, TypeOK
  <2>7. QED
    BY <1>4, <2>1, <2>2, <2>3, <2>4, <2>5, <2>6 DEF IsOpened
<1>5. QED
  BY <1>3, <1>4

\* No method on the stack of client code concerns a transaction that is opened.
LEMMA OpenedOK ==
  ASSUME IInv, ~HooksDisplayAll, NEW l \in Layers, NEW t \in Transactions,
         Displays(l, t), OpenTransaction(l, t),
         containers' = containers \cup {l}, stack' = stack, waiter' = waiter,
         completed' = completed, calls' = calls, value' = value,
         \A u \in Transactions : u # t =>
           operations'[u] = operations[u] /\ outstanding'[u] = outstanding[u]
  PROVE  /\ StackOK' /\ FramesOK' /\ CurrentOK' /\ LayersOK'
         /\ \A f \in Frame : In(f, stack) /\ IsOf(f) => f.t \in Transactions /\ f.t # t
<1>1. /\ state[t] \in {"none", "open"}
      /\ state'[t] = "open" /\ layerOf'[t] = l /\ completed[t] = 0
      /\ \A u \in Transactions : u # t =>
           state'[u] = state[u] /\ layerOf'[u] = layerOf[u]
      /\ \A k \in Layers : current'[k] = IF k = l THEN t ELSE current[k]
      /\ \A k \in Layers : k # l => current[k] # t
      /\ \A k \in Layers : layerTransactions'[k] =
           IF k = l THEN layerTransactions[l] \cup {t} ELSE layerTransactions[k]
      /\ \A k \in Layers : k # l => t \notin layerTransactions[k]
  <2>1. IsOpened(l, t)
    BY Opened
  <2>2. QED
    BY <2>1 DEF IsOpened
<1>2. \A f \in Frame : In(f, stack) =>
        /\ FrameOK(f) /\ f.kind # "waiting"
        /\ f.kind = "canceling" => f.layer # l
        /\ f.kind = "waitCommitted" => f.t # t
  BY DisplayStack DEF IInv, FramesOK
<1>3. \A f \in Frame : In(f, stack) /\ IsOf(f) => f.t \in Transactions /\ f.t # t
  <2>1. ASSUME NEW f \in Frame, In(f, stack), IsOf(f)
        PROVE  f.t \in Transactions /\ f.t # t
    <3>1. f.kind \in {"completing", "callback", "hook", "waitCommitted"}
      BY <1>2, <2>1, FrameKinds DEF Kinds
    <3>2. QED
      BY <1>1, <1>2, <2>1, <3>1, FrameKinds DEF FrameOK
  <2>2. QED
    BY <2>1
<1>4. StackOK'
  BY DEF IInv, StackOK
<1>5. FramesOK'
  <2>1. ASSUME NEW f \in Frame, In(f, stack) PROVE FrameOK(f)'
    <3>1. ASSUME f.kind = "waitCommitted", state'[f.t] = "open"
          PROVE  layerOf'[f.t] \notin containers'
      <4>1. /\ f.t \in Transactions /\ f.t # t
            /\ state[f.t] = "open" /\ layerOf'[f.t] = layerOf[f.t]
        BY <1>1, <1>3, <2>1, <3>1, FrameKinds
      <4>2. layerOf[f.t] \notin containers /\ current[layerOf[f.t]] = f.t
        BY <1>2, <2>1, <3>1, <4>1 DEF FrameOK, IInv, CurrentOK
      <4>3. layerOf[f.t] # l
        <5>1. current[l] \in {NoTransaction, t}
          BY Opened DEF IsOpened
        <5>2. QED
          BY <4>1, <4>2, <5>1, AsyncTransactionAssumption DEF AsyncTransactionAssumption
      <4>4. QED
        BY <4>1, <4>2, <4>3
    <3>2. IsOf(f) =>
            /\ operations'[f.t] = operations[f.t]
            /\ state'[f.t] = state[f.t]
            /\ outstanding'[f.t] = outstanding[f.t]
      BY <1>1, <1>3, <2>1
    <3>3. QED
      BY <1>2, <2>1, <3>1, <3>2, FrameStays
  <2>2. QED
    BY <2>1 DEF FramesOK
<1>6. \A k \in Layers : /\ IsCanceling(k)' <=> IsCanceling(k)
                        /\ IsCommitting(k)' <=> IsCommitting(k)
  BY DEF IsCanceling, IsCommitting
<1>7. CurrentOK'
  <2>1. ASSUME NEW k \in Layers, current'[k] # NoTransaction
        PROVE  /\ layerOf'[current'[k]] = k
               /\ k \in containers' \/ IsCommitting(k)
               /\ state'[current'[k]] = IF IsCanceling(k) THEN "committed" ELSE "open"
    <3>1. CASE k = l
      <4>1. ~IsCanceling(l)
        BY <1>2 DEF IsCanceling
      <4>2. QED
        BY <1>1, <3>1, <4>1
    <3>2. CASE k # l
      <4>1. current'[k] = current[k] /\ current[k] # t /\ current[k] \in Transactions
        BY <1>1, <2>1, <3>2 DEF IInv, TypeOK
      <4>2. /\ layerOf[current[k]] = k
            /\ k \in containers \/ IsCommitting(k)
            /\ state[current[k]] = IF IsCanceling(k) THEN "committed" ELSE "open"
        BY <2>1, <4>1 DEF IInv, CurrentOK
      <4>3. QED
        BY <1>1, <4>1, <4>2
    <3>3. QED
      BY <3>1, <3>2
  <2>2. ASSUME NEW u \in Transactions, state'[u] = "open"
        PROVE  /\ layerOf'[u] \in Layers /\ current'[layerOf'[u]] = u
               /\ u \in layerTransactions'[layerOf'[u]]
    <3>1. CASE u = t
      BY <1>1, <3>1
    <3>2. CASE u # t
      <4>1. state[u] = "open" /\ layerOf'[u] = layerOf[u]
        BY <1>1, <2>2, <3>2
      <4>2. /\ layerOf[u] \in Layers /\ current[layerOf[u]] = u
            /\ u \in layerTransactions[layerOf[u]]
        BY <4>1 DEF IInv, CurrentOK
      <4>3. u # NoTransaction
        BY AsyncTransactionAssumption DEF AsyncTransactionAssumption
      <4>4. layerOf[u] # l
        <5>1. IsOpened(l, t)
          BY Opened
        <5>2. QED
          BY <3>2, <4>2, <4>3, <5>1 DEF IsOpened
      <4>5. QED
        BY <1>1, <4>1, <4>2, <4>4
    <3>3. QED
      BY <3>1, <3>2
  <2>3. QED
    BY <1>6, <2>1, <2>2 DEF CurrentOK
<1>8. LayersOK'
  <2>1. ASSUME NEW k \in Layers, NEW u \in layerTransactions'[k]
        PROVE  /\ layerOf'[u] = k /\ completed[u] = 0
               /\ state'[u] \in {"open", "committed", "canceled"}
    <3>1. CASE u = t
      BY <1>1, <2>1, <3>1
    <3>2. CASE u # t
      <4>1. u \in layerTransactions[k]
        BY <1>1, <2>1, <3>2
      <4>2. u \in Transactions
        BY <4>1 DEF IInv, TypeOK
      <4>3. QED
        BY <1>1, <3>2, <4>1, <4>2 DEF IInv, LayersOK
    <3>3. QED
      BY <3>1, <3>2
  <2>2. ASSUME NEW u \in Transactions
        PROVE  /\ completed[u] \in {0, 1}
               /\ state'[u] \in {"committed", "canceled"} /\ operations'[u] # <<>> =>
                    layerOf'[u] \in Layers /\ u \in layerTransactions'[layerOf'[u]]
    <3>1. CASE u = t
      BY <1>1, <3>1
    <3>2. CASE u # t
      BY <1>1, <3>2 DEF IInv, LayersOK
    <3>3. QED
      BY <3>1, <3>2
  <2>3. QED
    BY <2>1, <2>2 DEF LayersOK
<1>9. QED
  BY <1>3, <1>4, <1>5, <1>7, <1>8

LEMMA GetTransactionOK ==
  ASSUME IInv, ~HooksDisplayAll, NEW l \in Layers, NEW t \in Transactions, GetTransaction(l, t)
  PROVE  IInv'
<1>1. /\ Displays(l, t) /\ current[l] = NoTransaction /\ OpenTransaction(l, t)
      /\ containers' = containers \cup {l} /\ stack' = stack
      /\ UNCHANGED <<operations, block, value, completion, calls, completed>>
      /\ UNCHANGED <<outstanding, awaiting, due, waiter>>
  BY DEF GetTransaction, opVars, callVars, grpVars
<1>2. /\ StackOK' /\ FramesOK' /\ CurrentOK' /\ LayersOK'
  BY <1>1, OpenedOK
<1>3. /\ (state[t] = "none" /\ operations[t] = <<>>) \/ state[t] = "open"
      /\ state' \in [Transactions ->
                      {"none", "open", "committed", "canceled", "complete"}]
      /\ layerOf' \in [Transactions -> Layers \cup {NoLayer}]
      /\ current' \in [Layers -> Transactions \cup {NoTransaction}]
      /\ layerTransactions' \in [Layers -> SUBSET Transactions]
      /\ state'[t] = "open"
      /\ \A u \in Transactions : u # t =>
           state'[u] = state[u] /\ layerOf'[u] = layerOf[u]
  <2>1. IsOpened(l, t)
    BY <1>1, Opened
  <2>2. QED
    BY <2>1 DEF IsOpened
<1>4. TypeOK' /\ GroupTypeOK'
  <2>1. \A u \in Transactions : state'[u] = "none" =>
          operations[u] = <<>> /\ layerOf'[u] = NoLayer /\ completed[u] = 0
    BY <1>3 DEF IInv, TypeOK
  <2>2. containers' \in SUBSET Layers
    BY <1>1 DEF IInv, TypeOK
  <2>3. QED
    BY <1>1, <1>3, <2>1, <2>2 DEF IInv, TypeOK, GroupTypeOK
<1>5. OwnersOK' /\ CallsOK'
  BY <1>1 DEF IInv, OwnersOK, CallsOK
<1>6. GroupsOK'
  BY <1>1, <1>3 DEF IInv, GroupsOK
<1>7. ValuesOK'
  <2>1. operations[t] = <<>> => ToSet(operations[t]) = {}
    BY DEF ToSet
  <2>2. QED
    BY <1>1, <1>3, <2>1 DEF IInv, ValuesOK
<1>8. QED
  BY <1>2, <1>4, <1>5, <1>6, <1>7 DEF IInv

LEMMA AppendIndices ==
  ASSUME NEW s \in Seq(Ops), NEW o \in Ops
  PROVE  /\ Append(s, o) \in Seq(Ops) /\ Append(s, o) # <<>>
         /\ \A i \in DOMAIN Append(s, o) :
              \/ i \in DOMAIN s /\ Append(s, o)[i] = s[i]
              \/ i \notin DOMAIN s /\ Append(s, o)[i] = o
         /\ \A i, j \in DOMAIN Append(s, o) :
              i \notin DOMAIN s /\ j \notin DOMAIN s => i = j
         /\ ToSet(Append(s, o)) = ToSet(s) \cup {o}
         /\ Len(Append(s, o)) = Len(s) + 1
<1>1. /\ Append(s, o) \in Seq(Ops) /\ Len(Append(s, o)) = Len(s) + 1
      /\ DOMAIN Append(s, o) = 1..(Len(s) + 1) /\ DOMAIN s = 1..Len(s)
      /\ Len(s) \in Nat
  OBVIOUS
<1>2. \A i \in 1..(Len(s) + 1) :
        \/ i \in 1..Len(s) /\ Append(s, o)[i] = s[i]
        \/ i = Len(s) + 1 /\ Append(s, o)[i] = o
  OBVIOUS
<1>3. \A i \in 1..Len(s) : i \in 1..(Len(s) + 1) /\ Append(s, o)[i] = s[i]
  OBVIOUS
<1>4. Len(s) + 1 \in 1..(Len(s) + 1) /\ Append(s, o)[Len(s) + 1] = o
  OBVIOUS
<1>5. Append(s, o) # <<>>
  BY <1>1
<1>6. ToSet(Append(s, o)) = ToSet(s) \cup {o}
  <2>1. ASSUME NEW p \in ToSet(Append(s, o)) PROVE p \in ToSet(s) \cup {o}
    <3>1. PICK i \in DOMAIN Append(s, o) : p = Append(s, o)[i]
      BY <2>1 DEF ToSet
    <3>2. QED
      BY <1>1, <1>2, <3>1 DEF ToSet
  <2>2. ASSUME NEW p \in ToSet(s) PROVE p \in ToSet(Append(s, o))
    <3>1. PICK i \in DOMAIN s : p = s[i]
      BY <2>2 DEF ToSet
    <3>2. i \in DOMAIN Append(s, o) /\ Append(s, o)[i] = p
      BY <1>1, <1>3, <3>1
    <3>3. QED
      BY <3>2 DEF ToSet
  <2>3. o \in ToSet(Append(s, o))
    BY <1>1, <1>4 DEF ToSet
  <2>4. QED
    BY <2>1, <2>2, <2>3
<1>7. \A i \in 1..(Len(s) + 1) : i \notin 1..Len(s) => i = Len(s) + 1
  BY <1>1
<1>8. QED
  BY <1>1, <1>2, <1>5, <1>6, <1>7

\* An operation joins the layer's open transaction, and starts.
LEMMA AddOperationOK ==
  ASSUME IInv, ~HooksDisplayAll, NEW l \in Layers, NEW t \in Transactions, NEW o \in Ops,
         AddOperation(l, t, o)
  PROVE  IInv'
<1>1. /\ Displays(l, t) /\ OpenTransaction(l, t)
      /\ block[o] = "none" /\ ~completion[o] /\ calls[o] = 0
      /\ operations' = [operations EXCEPT ![t] = Append(@, o)]
      /\ block' = [block EXCEPT ![o] = "scheduled"]
      /\ completion' = [completion EXCEPT ![o] = TRUE]
      /\ outstanding' = [outstanding EXCEPT ![t] = @ \cup {o}]
      /\ containers' = containers \cup {l} /\ stack' = stack
      /\ UNCHANGED <<value, calls, completed, awaiting, due, waiter>>
  BY DEF AddOperation, Group!Enter
<1>2. IsOpened(l, t)
  BY <1>1, Opened
<1>3. /\ (state[t] = "none" /\ operations[t] = <<>>) \/ state[t] = "open"
      /\ state'[t] = "open"
      /\ \A u \in Transactions : u # t =>
           state'[u] = state[u] /\ layerOf'[u] = layerOf[u]
  BY <1>2 DEF IsOpened
<1>4. /\ operations[t] \in Seq(Ops) /\ operations'[t] = Append(operations[t], o)
      /\ \A u \in Transactions : u # t => operations'[u] = operations[u]
      /\ operations' \in [Transactions -> Seq(Ops)]
  BY <1>1 DEF IInv, TypeOK
<1>5. /\ ToSet(operations'[t]) = ToSet(operations[t]) \cup {o}
      /\ \A u \in Transactions : ToSet(operations[u]) \subseteq Ops
  <2>1. \A u \in Transactions : ToSet(operations[u]) \subseteq Ops
    BY DEF IInv, TypeOK, ToSet
  <2>2. QED
    BY <1>4, <2>1, AppendIndices
<1>6. /\ outstanding'[t] = outstanding[t] \cup {o}
      /\ \A u \in Transactions : u # t => outstanding'[u] = outstanding[u]
      /\ block'[o] = "scheduled" /\ completion'[o]
      /\ \A p \in Ops : p # o => block'[p] = block[p] /\ completion'[p] = completion[p]
  BY <1>1 DEF IInv, TypeOK, GroupTypeOK
<1>7. \A u \in Transactions : o \notin ToSet(operations[u])
  BY <1>1 DEF IInv, OwnersOK
<1>8. /\ StackOK' /\ FramesOK' /\ CurrentOK' /\ LayersOK'
      /\ \A f \in Frame : In(f, stack) /\ IsOf(f) => f.t \in Transactions /\ f.t # t
  BY <1>1, <1>4, <1>6, OpenedOK
<1>9. TypeOK' /\ GroupTypeOK'
  <2>1. /\ state' \in [Transactions ->
                         {"none", "open", "committed", "canceled", "complete"}]
        /\ layerOf' \in [Transactions -> Layers \cup {NoLayer}]
        /\ current' \in [Layers -> Transactions \cup {NoTransaction}]
        /\ layerTransactions' \in [Layers -> SUBSET Transactions]
    BY <1>2 DEF IsOpened
  <2>2. \A u \in Transactions : state'[u] = "none" =>
          operations'[u] = <<>> /\ layerOf'[u] = NoLayer /\ completed[u] = 0
    BY <1>3, <1>4 DEF IInv, TypeOK
  <2>3. /\ containers' \in SUBSET Layers
        /\ block' \in [Ops -> {"none", "scheduled", "ran"}]
        /\ completion' \in [Ops -> BOOLEAN]
        /\ outstanding' \in [Transactions -> SUBSET Ops]
    BY <1>1 DEF IInv, TypeOK, GroupTypeOK
  <2>4. QED
    BY <1>1, <1>4, <2>1, <2>2, <2>3 DEF IInv, TypeOK, GroupTypeOK
<1>10. OwnersOK'
  <2>1. \A u \in Transactions : \A i \in DOMAIN operations[u] : operations[u][i] # o
    BY <1>7 DEF ToSet
  <2>2. ASSUME NEW u \in Transactions, NEW i \in DOMAIN operations'[u]
        PROVE  \/ /\ i \in DOMAIN operations[u] /\ operations'[u][i] # o
                  /\ operations'[u][i] = operations[u][i]
               \/ u = t /\ i \notin DOMAIN operations[t] /\ operations'[u][i] = o
    <3>1. CASE u = t
      BY <1>4, <2>1, <2>2, <3>1, AppendIndices
    <3>2. CASE u # t
      BY <1>4, <2>1, <2>2, <3>2
    <3>3. QED
      BY <3>1, <3>2
  <2>3. \A i, j \in DOMAIN operations'[t] :
          i \notin DOMAIN operations[t] /\ j \notin DOMAIN operations[t] => i = j
    BY <1>4, AppendIndices
  <2>4. ASSUME NEW u \in Transactions, NEW v \in Transactions,
               NEW i \in DOMAIN operations'[u], NEW j \in DOMAIN operations'[v],
               operations'[u][i] = operations'[v][j]
        PROVE  u = v /\ i = j
    <3>1. CASE operations'[u][i] = o
      BY <2>2, <2>3, <2>4, <3>1
    <3>2. CASE operations'[u][i] # o
      BY <2>2, <2>4, <3>2 DEF IInv, OwnersOK
    <3>3. QED
      BY <3>1, <3>2
  <2>5. ASSUME NEW u \in Transactions, NEW p \in ToSet(operations'[u])
        PROVE  completion'[p] \/ calls[p] # 0
    <3>1. p = o \/ p \in ToSet(operations[u])
      BY <1>4, <1>5, <2>5
    <3>2. QED
      BY <1>5, <1>6, <3>1 DEF IInv, OwnersOK
  <2>6. QED
    BY <1>1, <2>4, <2>5 DEF OwnersOK
<1>11. GroupsOK'
  <2>1. GroupsOK
    BY DEF IInv
  <2>2. ASSUME NEW u \in Transactions, NEW p \in outstanding'[u]
        PROVE  p \in ToSet(operations'[u]) /\ block'[p] # "none"
    <3>1. CASE p = o
      <4>1. u = t
        BY <1>6, <1>7, <2>1, <2>2, <3>1 DEF GroupsOK
      <4>2. QED
        BY <1>5, <1>6, <3>1, <4>1
    <3>2. CASE p # o
      <4>1. p \in outstanding[u] /\ p \in Ops
        BY <1>6, <2>2, <3>2 DEF IInv, GroupTypeOK
      <4>2. p \in ToSet(operations[u]) /\ block[p] # "none"
        BY <2>1, <4>1 DEF GroupsOK
      <4>3. QED
        BY <1>4, <1>5, <1>6, <3>2, <4>1, <4>2
    <3>3. QED
      BY <3>1, <3>2
  <2>3. ASSUME NEW p \in Ops, block'[p] # "none"
        PROVE  \E u \in Transactions : p \in outstanding'[u]
    <3>1. CASE p = o
      BY <1>6, <3>1
    <3>2. CASE p # o
      <4>1. PICK u \in Transactions : p \in outstanding[u]
        BY <1>6, <2>1, <2>3, <3>2 DEF GroupsOK
      <4>2. p \in outstanding'[u]
        BY <1>6, <4>1
      <4>3. QED
        BY <4>2
    <3>3. QED
      BY <3>1, <3>2
  <2>4. t \notin due /\ awaiting[t] = {}
    BY <1>3, <2>1 DEF GroupsOK
  <2>5. \A u \in Transactions : u \in due \/ awaiting[u] # {} =>
          state'[u] \notin {"none", "open"} /\ operations'[u] # <<>>
    BY <1>3, <1>4, <2>1, <2>4 DEF GroupsOK
  <2>6. \A u \in due : u \in Transactions /\ outstanding'[u] = {}
    BY <1>6, <2>1, <2>4 DEF IInv, GroupTypeOK, GroupsOK
  <2>7. QED
    BY <1>1, <2>1, <2>2, <2>3, <2>5, <2>6 DEF GroupsOK
<1>12. ValuesOK'
  <2>1. SUFFICES ASSUME NEW u \in Transactions, NEW p \in ToSet(operations'[u]),
                        state'[u] \in {"open", "committed"}, block'[p] # "scheduled"
                 PROVE  value[p]
    BY <1>1 DEF ValuesOK
  <2>2. p # o /\ p \in ToSet(operations[u]) /\ p \in Ops
    BY <1>4, <1>5, <1>6, <2>1
  <2>3. block[p] # "scheduled"
    BY <1>6, <2>1, <2>2
  <2>4. state[u] \in {"open", "committed"}
    <3>1. CASE u = t
      <4>1. operations[t] = <<>> => ToSet(operations[t]) = {}
        BY DEF ToSet
      <4>2. QED
        BY <1>3, <2>2, <3>1, <4>1
    <3>2. CASE u # t
      BY <1>3, <2>1, <3>2
    <3>3. QED
      BY <3>1, <3>2
  <2>5. QED
    BY <2>2, <2>3, <2>4 DEF IInv, ValuesOK
<1>13. CallsOK'
  <2>1. \A p \in Ops : completion'[p] => completion[p] \/ calls[p] = 0
    BY <1>1, <1>6
  <2>2. \A f \in Frame : f.kind = "callback" /\ In(f, stack) =>
          In(f, stack') /\ operations'[f.t][f.i] = operations[f.t][f.i]
    BY <1>1, <1>4, <1>8, FrameKinds
  <2>3. QED
    BY <1>1, <2>1, <2>2, CallsStay DEF IInv
<1>14. QED
  BY <1>8, <1>9, <1>10, <1>11, <1>12, <1>13 DEF IInv

-----------------------------------------------------------------------------
(* The theorems. *)

LEMMA NextIInv ==
  ASSUME IInv, ~WaitsForOwn, ~HooksDisplayAll, [Next]_vars
  PROVE  IInv'
<1>1. CASE UNCHANGED vars
  <2>1. /\ UNCHANGED <<state, operations, layerOf, current, layerTransactions, containers>>
        /\ UNCHANGED <<block, value, completion, calls, completed, stack>>
        /\ UNCHANGED <<outstanding, awaiting, due, waiter>>
    BY <1>1 DEF vars, txVars, boxVars, opVars, callVars, grpVars
  <2>2. StackOK' /\ FramesOK'
    BY <2>1, FramesStay
  <2>3. CurrentOK'
    BY <2>1 DEF IInv, CurrentOK, IsCanceling, IsCommitting
  <2>4. TypeOK' /\ GroupTypeOK' /\ LayersOK' /\ OwnersOK'
    BY <2>1 DEF IInv, TypeOK, GroupTypeOK, LayersOK, OwnersOK
  <2>5. GroupsOK' /\ ValuesOK' /\ CallsOK'
    BY <2>1 DEF IInv, GroupsOK, ValuesOK, CallsOK
  <2>6. QED
    BY <2>2, <2>3, <2>4, <2>5 DEF IInv
<1>2. CASE ClientStep
  <2>1. PICK l \in Layers :
          \/ CancelAsyncTransactions(l)
          \/ \E t \in Transactions :
               \/ GetTransaction(l, t) \/ WaitUntilComplete(l, t)
               \/ \E o \in Ops : AddOperation(l, t, o)
    BY <1>2 DEF ClientStep
  <2>2. CASE CancelAsyncTransactions(l)
    BY <2>2, CancelAsyncTransactionsOK
  <2>3. ASSUME NEW t \in Transactions, GetTransaction(l, t) PROVE IInv'
    BY <2>3, GetTransactionOK
  <2>4. ASSUME NEW t \in Transactions, WaitUntilComplete(l, t) PROVE IInv'
    BY <2>4, WaitUntilCompleteOK
  <2>5. ASSUME NEW t \in Transactions, NEW o \in Ops, AddOperation(l, t, o)
        PROVE  IInv'
    BY <2>5, AddOperationOK
  <2>6. QED
    BY <2>1, <2>2, <2>3, <2>4, <2>5
<1>3. CASE MainStep
  <2>1. CASE FinishCancel
    BY <2>1, FinishCancelOK
  <2>2. CASE WaitOver
    BY <2>2, WaitOverOK
  <2>3. CASE WaitComplete
    BY <2>3, WaitCompleteOK
  <2>4. CASE CommitContainer
    BY <2>4, CommitContainerOK
  <2>5. CASE CommitDone
    BY <2>5, CommitDoneOK
  <2>6. CASE CallCompletion
    BY <2>6, CallCompletionOK
  <2>7. CASE ReturnFromCallback
    BY <2>7, ReturnFromCallbackOK
  <2>8. CASE FinishComplete
    BY <2>8, FinishCompleteOK
  <2>9. CASE ReturnFromHook
    BY <2>9, ReturnFromHookOK
  <2>10. QED
    BY <1>3, <2>1, <2>2, <2>3, <2>4, <2>5, <2>6, <2>7, <2>8, <2>9 DEF MainStep
<1>4. CASE RunLoopCommit
  BY <1>4, RunLoopCommitOK
<1>5. ASSUME NEW t \in Transactions, RunNotification(t) PROVE IInv'
  BY <1>5, RunNotificationOK
<1>6. ASSUME NEW t \in Transactions, Dealloc(t) PROVE IInv'
  BY <1>6, DeallocOK
<1>7. ASSUME NEW o \in Ops, RunBlock(o) PROVE IInv'
  BY <1>7, RunBlockOK
<1>8. ASSUME NEW o \in Ops, LeaveGroup(o) PROVE IInv'
  BY <1>8, LeaveGroupOK
<1>9. QED
  BY <1>1, <1>2, <1>3, <1>4, <1>5, <1>6, <1>7, <1>8 DEF Next

\* The state always has its types, the stack its shapes, every method main is
\* inside what it relies on, every layer, group and value what commits and
\* completions made of them (_ASAsyncTransaction.mm 296-437).
THEOREM Invariance ==
  ASSUME ~WaitsForOwn, ~HooksDisplayAll
  PROVE  Spec => []IInv
<1>1. IInv /\ [Next]_vars => IInv'
  BY NextIInv
<1>2. QED
  BY InitIInv, <1>1, PTL DEF Spec

\* Completion blocks are only called for transactions that were committed and
\* whose operations have all left the group (CallbacksFollowOperations).
THEOREM CallbacksAlwaysFollowOperations ==
  ASSUME ~WaitsForOwn, ~HooksDisplayAll
  PROVE  Spec => []CallbacksFollowOperations
<1>1. IInv => CallbacksFollowOperations
  <2>1. SUFFICES ASSUME IInv, stack # <<>>, Top.kind = "callback"
                 PROVE  outstanding[Top.t] = {} /\ state[Top.t] \in {"committed", "canceled"}
    BY DEF CallbacksFollowOperations, Inside, Top, Group!Empty
  <2>2. QED
    BY <2>1, TopOfStack DEF FrameOK
<1>2. QED
  BY Invariance, <1>1, PTL

\* No completion block is called twice and no transaction completes twice,
\* however notifications, waits and nested waits interleave (CallbacksRunOnce).
THEOREM CallbacksAlwaysRunOnce ==
  ASSUME ~WaitsForOwn, ~HooksDisplayAll
  PROVE  Spec => []CallbacksRunOnce
<1>1. IInv => CallbacksRunOnce
  <2>1. SUFFICES ASSUME IInv PROVE CallbacksRunOnce
    OBVIOUS
  <2>2. \A o \in Ops : calls[o] \in {0, 1}
    BY <2>1 DEF IInv, CallsOK
  <2>3. \A t \in Transactions : completed[t] \in {0, 1}
    BY <2>1 DEF IInv, LayersOK
  <2>4. QED
    BY <2>2, <2>3 DEF CallbacksRunOnce
<1>2. QED
  BY Invariance, <1>1, PTL

\* A completion block that is told its transaction was not canceled has the
\* value of its operation's block (UncanceledHaveValues).
THEOREM UncanceledAlwaysHaveValues ==
  ASSUME ~WaitsForOwn, ~HooksDisplayAll
  PROVE  Spec => []UncanceledHaveValues
<1>1. IInv => UncanceledHaveValues
  <2>1. SUFFICES ASSUME IInv, stack # <<>>, Top.kind = "callback", ~Top.canceled
                 PROVE  \A o \in ToSet(operations[Top.t]) : value[o]
    BY DEF UncanceledHaveValues, Inside, Top
  <2>2. QED
    BY <2>1, TopOfStack DEF FrameOK
<1>2. QED
  BY Invariance, <1>1, PTL

\* Operations join open transactions only, also those that hooks and callbacks
\* add in the midst of commits, completions and cancellations, but for hooks in
\* the layer being canceled or the transaction waited for (OperationsJoinOpen,
\* the assertion at 357).
THEOREM OperationsAlwaysJoinOpen ==
  ASSUME ~WaitsForOwn, ~HooksDisplayAll
  PROVE  Spec => OperationsJoinOpen
<1> DEFINE Joined(t) == Len(operations'[t]) > Len(operations[t]) => state'[t] = "open"
<1>1. ASSUME IInv, [Next]_vars, NEW t \in Transactions PROVE Joined(t)
  <2>1. Len(operations[t]) \in Nat
    BY <1>1 DEF IInv, TypeOK
  <2>2. CASE operations' = operations
    BY <2>1, <2>2
  <2>3. ASSUME NEW l \in Layers, NEW u \in Transactions, NEW o \in Ops,
               AddOperation(l, u, o)
        PROVE  Joined(t)
    <3>1. IsOpened(l, u)
      BY <1>1, <2>3, Opened DEF AddOperation
    <3>2. state'[u] = "open"
      BY <3>1 DEF IsOpened
    <3>3. t # u => operations'[t] = operations[t]
      BY <1>1, <2>3 DEF AddOperation, IInv, TypeOK
    <3>4. QED
      BY <2>1, <3>2, <3>3
  <2>4. ASSUME NEW u \in Transactions, Dealloc(u) PROVE Joined(t)
    <3>1. operations'[t] = IF t = u THEN <<>> ELSE operations[t]
      BY <1>1, <2>4 DEF Dealloc, IInv, TypeOK
    <3>2. Len(<<>>) = 0
      OBVIOUS
    <3>3. QED
      BY <2>1, <3>1, <3>2
  <2>5. \/ operations' = operations
        \/ \E l \in Layers, u \in Transactions, o \in Ops : AddOperation(l, u, o)
        \/ \E u \in Transactions : Dealloc(u)
    <3>1. CASE UNCHANGED vars
      BY <3>1 DEF vars, txVars
    <3>2. CASE ClientStep
      BY <3>2 DEF ClientStep, GetTransaction, CancelAsyncTransactions, Commit,
         WaitUntilComplete, txVars
    <3>3. CASE MainStep
      BY <3>3 DEF MainStep, FinishCancel, WaitOver, WaitComplete, CommitContainer,
         CommitDone, CallCompletion, ReturnFromCallback, FinishComplete,
         ReturnFromHook, Commit, txVars
    <3>4. CASE RunLoopCommit \/ \E u \in Transactions : RunNotification(u)
      BY <3>4 DEF RunLoopCommit, RunNotification, txVars
    <3>5. CASE \E o \in Ops : RunBlock(o) \/ LeaveGroup(o)
      BY <3>5 DEF RunBlock, LeaveGroup, txVars
    <3>6. QED
      BY <1>1, <3>1, <3>2, <3>3, <3>4, <3>5 DEF Next
  <2>6. QED
    BY <2>2, <2>3, <2>4, <2>5
<1>2. IInv /\ [Next]_vars =>
        [\A t \in Transactions :
           Len(operations'[t]) > Len(operations[t]) => state'[t] = "open"]_vars
  BY <1>1
<1>3. QED
  BY Invariance, <1>2, PTL DEF Spec, OperationsJoinOpen
==============================================================================
