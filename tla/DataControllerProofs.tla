------------------------- MODULE DataControllerProofs -------------------------
(* Proofs about the update pipeline of ASDataController, for any number of   *)
(* change sets, callbacks, maps and nested calls.                            *)
EXTENDS DataController, FiniteSetTheorems, TLAPS

-----------------------------------------------------------------------------
(* Queues and the stack, without their indices. *)

\* y comes somewhere after x.
Follows(x, y, s) == \E i, j \in DOMAIN s : i < j /\ s[i] = x /\ s[j] = y

\* g comes right after f: on the stack, f is the method that g called last.
Next2(f, g, s) == \E i, j \in DOMAIN s : j = i + 1 /\ s[i] = f /\ s[j] = g

Push(f, s) == <<f>> \o s

\* What the editing thread has still to push, and what it has still to count.
FreshQueue == IF editing = "idle" THEN editingQueue ELSE Tail(editingQueue)
CountedQueue == IF editing = "counted" THEN Tail(editingQueue) ELSE editingQueue

Held(u)    == u \in Items(deferred)
Blocked(u) == UpdateItem(u) \in Items(blocks)
Fresh(u)   == UpdateItem(u) \in Items(FreshQueue)
Queued(u)  == UpdateItem(u) \in Items(editingQueue)
Way(u)     == Held(u) \/ Blocked(u) \/ Fresh(u)

-----------------------------------------------------------------------------
(* The inductive invariant, in four parts. *)

\* Who can be right below whom: nobody calls anything from a method that is
\* submitting or waiting; a wait that pushed its block runs the queue; and
\* clearData waits before it does anything.
Below(f, g) ==
  /\ g.kind \notin {"submitting", "waiting"}
  /\ g.kind = "waited" => f.kind = "running"
  /\ g.kind = "clearing" =>
       f.kind = "waited" \/ (f.kind = "waiting" /\ f.item = NoopItem)

StackOK(s) == \A f, g \in Frames : Next2(f, g, s) => Below(f, g)

Counted == {u \in Updates : UpdateItem(u) \in Items(CountedQueue)}

EditingOK ==
  /\ editing # "idle" => editingQueue # <<>> /\ Head(editingQueue).kind = "update"
  /\ IsFiniteSet(Counted) /\ editingCount = Cardinality(Counted)

\* An update is in one place, and there once, and its status says where.
OnePlace(u) ==
  /\ ~Follows(u, u, deferred)
  /\ ~Follows(UpdateItem(u), UpdateItem(u), blocks)
  /\ ~Follows(UpdateItem(u), UpdateItem(u), editingQueue)
  /\ ~Follows(Completion(u), Completion(u), stack)
  /\ Held(u) => ~Blocked(u) /\ ~Fresh(u)
  /\ Blocked(u) => ~Fresh(u)

StatusOK(u) ==
  /\ Way(u) => status[u] = "latched"
  /\ Queued(u) => status[u] \notin {"none", "submitted"}
  /\ u \in animating => status[u] = "deployed"
  /\ Submitting(u) \in Items(stack) =>
       status[u] = "submitted" /\ Completion(u) \notin Items(stack)
  /\ Completion(u) \in Items(stack) =>
       (status[u] = "deployed" /\ u \notin animating) \/ status[u] = "submitted"
  /\ status[u] \in {"none", "submitted"} => mapOf[u] = 0

TokensOK == \A u \in Updates : OnePlace(u) /\ StatusOK(u)

PipelineOK == TypeOK /\ StackOK(stack) /\ EditingOK /\ TokensOK

Before(u, v) ==
  \/ Follows(u, v, deferred)
  \/ Follows(UpdateItem(u), UpdateItem(v), blocks)
  \/ Follows(UpdateItem(u), UpdateItem(v), editingQueue)
  \/ Held(u) /\ (Blocked(v) \/ Fresh(v))
  \/ Blocked(u) /\ Fresh(v)

\* Updates are displayed in the order in which they were latched, and every
\* map that is not displayed yet is the map of one of them.
OrderOK ==
  /\ \A u, v \in Updates : Before(u, v) => mapOf[u] <= mapOf[v]
  /\ \A u \in Updates : mapOf[u] <= pendingMap /\ (Way(u) => visibleMap <= mapOf[u])
  /\ visibleMap <= pendingMap
  /\ \A m \in Maps : visibleMap < m /\ m <= pendingMap =>
       \E u \in Updates : Way(u) /\ mapOf[u] = m

\* A block that replaces both maps has no update behind it: no update can be
\* submitted, laid out or pushed since main pushed the block.
RelayoutOK ==
  \A f \in Items(blocks) : f.kind = "relayout" =>
    /\ ReplacesMaps /\ initialReload /\ GroupEmpty
    /\ \A g \in Items(stack) : g.kind # "submitting"
    /\ \A u \in Updates : ~Follows(f, UpdateItem(u), blocks)

ClearingOK ==
  /\ \A f \in Items(stack) : f.kind = "clearing" =>
       /\ ReplacesMaps /\ initialReload
       /\ \A g \in Items(stack) : g.kind # "submitting"
  /\ \A f, g \in Frames :
       Next2(f, g, stack) /\ f.kind = "waited" /\ g.kind = "clearing" => GroupEmpty
  /\ Inside("clearing") => GroupEmpty /\ \A u \in Updates : ~Blocked(u)
  /\ Inside("waited") /\ Rest # <<>> /\ Head(Rest).kind = "clearing" =>
       \A u \in Updates : ~Blocked(u)

ReplaceOK ==
  /\ ViewDefers \/ deferred = <<>>
  /\ initialReload \/ pendingMap = 0
  /\ \A f \in Items(stack) : f.kind = "waiting" /\ f.item.kind = "relayout" =>
       ReplacesMaps /\ initialReload
  /\ RelayoutOK /\ ClearingOK

MapsOK == PipelineOK /\ OrderOK /\ ReplaceOK

\* The map was displayed, or is in front of whoever runs the queue.
Reached(m) ==
  m <= visibleMap \/ \E u \in Updates : Blocked(u) /\ m <= mapOf[u]

WaitsOK ==
  /\ \A f \in Items(stack) : f.kind = "waiting" => f.from <= pendingMap
  /\ \A f \in Items(stack) : f.kind = "waited" => Reached(f.from)
  /\ Inside("waited") => Top.from <= visibleMap

\* A change of the traits that main waits to bring to the elements on display,
\* and one that it brings after map m is displayed.
TraitsWait == \E f \in Items(stack) : f.kind = "waiting" /\ f.item = TraitsItem
TraitsBehind(m) ==
  /\ TraitsItem \in Items(blocks)
  /\ \/ m <= visibleMap
     \/ \E u \in Updates : Follows(UpdateItem(u), TraitsItem, blocks) /\ m <= mapOf[u]

\* The elements of map m have the traits or are about to be given them: main will
\* hear of the change, waits to push the block, or has pushed it behind the map.
Told(m) ==
  \/ elementTraits[m] = traits
  \/ TraitsChanged \in Items(mainQueue)
  \/ TraitsWait
  \/ TraitsBehind(m)

TraitsOK == \A m \in Maps : 1 <= m /\ m <= pendingMap => Told(m)

IInv == MapsOK /\ WaitsOK /\ TraitsOK

-----------------------------------------------------------------------------
(* Lemmas about queues and stacks. *)

LEMMA InItems ==
  ASSUME NEW S, NEW s \in Seq(S)
  PROVE  /\ Items(s) \subseteq S
         /\ \A x, y : Follows(x, y, s) => x \in Items(s) /\ y \in Items(s)
         /\ \A x, y : Next2(x, y, s) => x \in Items(s) /\ y \in Items(s)
         /\ s # <<>> => Head(s) \in Items(s) /\ s # <<>>
<1>1. \A i \in DOMAIN s : s[i] \in S
  OBVIOUS
<1>2. s # <<>> => 1 \in DOMAIN s /\ Head(s) = s[1]
  OBVIOUS
<1>3. QED
  BY <1>1, <1>2 DEF Items, Follows, Next2

LEMMA Empty ==
  /\ Items(<<>>) = {}
  /\ \A x, y : ~Follows(x, y, <<>>) /\ ~Next2(x, y, <<>>)
  BY DEF Items, Follows, Next2

LEMMA Appended ==
  ASSUME NEW S, NEW s \in Seq(S), NEW z \in S
  PROVE  /\ Append(s, z) \in Seq(S) /\ Append(s, z) # <<>>
         /\ Items(Append(s, z)) = Items(s) \cup {z}
         /\ \A x, y : Follows(x, y, Append(s, z)) <=>
                        Follows(x, y, s) \/ (x \in Items(s) /\ y = z)
         /\ s # <<>> => /\ Head(Append(s, z)) = Head(s)
                        /\ Tail(Append(s, z)) = Append(Tail(s), z)
<1> DEFINE t == Append(s, z)
           n == Len(s)
<1>1. /\ t \in Seq(S) /\ n \in Nat /\ DOMAIN s = 1..n /\ DOMAIN t = 1..(n + 1)
      /\ t[n + 1] = z /\ \A i \in 1..n : t[i] = s[i]
  OBVIOUS
<1>2. t # <<>>
  BY <1>1
<1>3. s # <<>> => Head(t) = Head(s) /\ Tail(t) = Append(Tail(s), z)
  <2>1. SUFFICES ASSUME s # <<>> PROVE Head(t) = Head(s) /\ Tail(t) = Append(Tail(s), z)
    OBVIOUS
  <2>2. n >= 1
    BY <1>1, <2>1
  <2>3. Tail(t) \in Seq(S) /\ Append(Tail(s), z) \in Seq(S)
    BY <1>1, <1>2, <2>1
  <2>4. Len(Tail(t)) = n /\ Len(Append(Tail(s), z)) = n
    BY <1>1, <2>1, <2>2
  <2>5. ASSUME NEW i \in 1..n PROVE Tail(t)[i] = Append(Tail(s), z)[i]
    <3>1. Tail(t)[i] = t[i + 1]
      BY <1>1, <2>1, <2>2
    <3>2. CASE i = n
      BY <1>1, <2>1, <2>2, <3>1, <3>2
    <3>3. CASE i # n
      <4>1. i \in 1..(n - 1) /\ i + 1 \in 1..n
        <5>1. n \in Nat
          BY <1>1
        <5>2. QED
          BY <2>5, <3>3, <5>1
      <4>2. Append(Tail(s), z)[i] = s[i + 1]
        BY <1>1, <2>1, <4>1
      <4>3. QED
        BY <1>1, <3>1, <4>1, <4>2
    <3>4. QED
      BY <3>2, <3>3
  <2>6. Tail(t) = Append(Tail(s), z)
    <3>1. PICK p, q : p = Tail(t) /\ q = Append(Tail(s), z)
      OBVIOUS
    <3>2. /\ p \in Seq(S) /\ q \in Seq(S) /\ Len(p) = n /\ Len(q) = n
          /\ \A i \in 1..n : p[i] = q[i]
      BY <2>3, <2>4, <2>5, <3>1
    <3>3. p = q
      BY <3>2
    <3>4. QED
      BY <3>1, <3>3
  <2>7. Head(t) = Head(s)
    BY <1>1, <2>1, <2>2
  <2>8. QED
    BY <2>6, <2>7
<1> HIDE DEF t, n
<1>4. \A i \in 1..(n + 1) : i \in 1..n \/ i = n + 1
  BY <1>1
<1>5. \A i \in 1..n : i \in 1..(n + 1) /\ i < n + 1
  BY <1>1
<1>6. n + 1 \in 1..(n + 1) /\ n + 1 \notin 1..n
  BY <1>1
<1>7. Items(t) = Items(s) \cup {z}
  <2>1. \A x \in Items(t) : x \in Items(s) \cup {z}
    BY <1>1, <1>4 DEF Items
  <2>2. \A x \in Items(s) : x \in Items(t)
    BY <1>1, <1>5 DEF Items
  <2>3. z \in Items(t)
    BY <1>1, <1>6 DEF Items
  <2>4. QED
    BY <2>1, <2>2, <2>3
<1>8. ASSUME NEW x, NEW y, Follows(x, y, t)
      PROVE  Follows(x, y, s) \/ (x \in Items(s) /\ y = z)
  <2>1. PICK i \in 1..(n + 1), j \in 1..(n + 1) : i < j /\ t[i] = x /\ t[j] = y
    BY <1>1, <1>8 DEF Follows
  <2>2. i \in 1..n
    BY <1>1, <2>1
  <2>3. x \in Items(s) /\ s[i] = x
    BY <1>1, <2>1, <2>2 DEF Items
  <2>4. CASE j = n + 1
    BY <1>1, <2>1, <2>3, <2>4
  <2>5. CASE j \in 1..n
    BY <1>1, <2>1, <2>2, <2>5 DEF Follows
  <2>6. QED
    BY <1>4, <2>4, <2>5
<1>9. ASSUME NEW x, NEW y, Follows(x, y, s) PROVE Follows(x, y, t)
  BY <1>1, <1>5, <1>9 DEF Follows
<1>10. ASSUME NEW x \in Items(s) PROVE Follows(x, z, t)
  BY <1>1, <1>5, <1>6 DEF Follows, Items
<1>11. QED
  BY <1>1, <1>2, <1>3, <1>7, <1>8, <1>9, <1>10 DEF t

LEMMA Pushed ==
  ASSUME NEW S, NEW s \in Seq(S), NEW f \in S
  PROVE  /\ Push(f, s) \in Seq(S) /\ Push(f, s) # <<>>
         /\ Head(Push(f, s)) = f /\ Tail(Push(f, s)) = s
         /\ Items(Push(f, s)) = Items(s) \cup {f}
         /\ \A x, y : Follows(x, y, Push(f, s)) <=>
                        Follows(x, y, s) \/ (x = f /\ y \in Items(s))
         /\ \A x, y : Next2(x, y, Push(f, s)) <=>
                        Next2(x, y, s) \/ (s # <<>> /\ x = f /\ y = Head(s))
<1> DEFINE t == Push(f, s)
           n == Len(s)
<1>1. /\ t \in Seq(S) /\ n \in Nat /\ DOMAIN s = 1..n /\ DOMAIN t = 1..(n + 1)
      /\ t[1] = f /\ \A i \in 1..n : t[i + 1] = s[i]
  BY DEF Push
<1>2. t # <<>> /\ Head(t) = f
  BY <1>1
<1>3. Tail(t) = s
  BY <1>1
<1>4. s # <<>> => n >= 1 /\ Head(s) = s[1]
  BY <1>1
<1> HIDE DEF t, n
<1>5. \A i \in 1..(n + 1) : i = 1 \/ (i - 1 \in 1..n /\ t[i] = s[i - 1])
  BY <1>1
<1>6. 1 \in 1..(n + 1) /\ \A i \in 1..n : i + 1 \in 1..(n + 1) /\ 1 < i + 1
  BY <1>1
<1>7. Items(t) = Items(s) \cup {f}
  <2>1. ASSUME NEW x \in Items(t) PROVE x \in Items(s) \cup {f}
    <3>1. PICK i \in 1..(n + 1) : x = t[i]
      BY <1>1, <2>1 DEF Items
    <3>2. i = 1 \/ (i - 1 \in 1..n /\ x = s[i - 1])
      BY <1>5, <3>1
    <3>3. QED
      BY <1>1, <3>1, <3>2 DEF Items
  <2>2. \A x \in Items(s) : x \in Items(t)
    BY <1>1, <1>6 DEF Items
  <2>3. f \in Items(t)
    BY <1>1, <1>6 DEF Items
  <2>4. QED
    BY <2>1, <2>2, <2>3
<1>8. ASSUME NEW x, NEW y, Follows(x, y, t)
      PROVE  Follows(x, y, s) \/ (x = f /\ y \in Items(s))
  <2>1. PICK i \in 1..(n + 1), j \in 1..(n + 1) : i < j /\ t[i] = x /\ t[j] = y
    BY <1>1, <1>8 DEF Follows
  <2>2. j - 1 \in 1..n /\ s[j - 1] = y
    BY <1>1, <1>5, <2>1
  <2>3. CASE i = 1
    BY <1>1, <2>1, <2>2, <2>3 DEF Items
  <2>4. CASE i # 1
    <3>1. i - 1 \in 1..n /\ s[i - 1] = x /\ i - 1 < j - 1
      BY <1>1, <1>5, <2>1, <2>4
    <3>2. QED
      BY <1>1, <2>2, <3>1 DEF Follows
  <2>5. QED
    BY <2>3, <2>4
<1>9. ASSUME NEW x, NEW y, Follows(x, y, s) PROVE Follows(x, y, t)
  <2>1. PICK i \in 1..n, j \in 1..n : i < j /\ s[i] = x /\ s[j] = y
    BY <1>1, <1>9 DEF Follows
  <2>2. i + 1 < j + 1
    BY <1>1, <2>1
  <2>3. QED
    BY <1>1, <1>6, <2>1, <2>2 DEF Follows
<1>10. ASSUME NEW y \in Items(s) PROVE Follows(f, y, t)
  BY <1>1, <1>6 DEF Follows, Items
<1>11. ASSUME NEW x, NEW y, Next2(x, y, t)
       PROVE  Next2(x, y, s) \/ (s # <<>> /\ x = f /\ y = Head(s))
  <2>1. PICK i \in 1..(n + 1), j \in 1..(n + 1) : j = i + 1 /\ t[i] = x /\ t[j] = y
    BY <1>1, <1>11 DEF Next2
  <2>2. j - 1 \in 1..n /\ s[j - 1] = y
    BY <1>1, <1>5, <2>1
  <2>3. CASE i = 1
    <3>1. s # <<>> /\ y = Head(s)
      BY <1>1, <2>1, <2>2, <2>3
    <3>2. QED
      BY <1>1, <2>1, <2>3, <3>1
  <2>4. CASE i # 1
    <3>1. i - 1 \in 1..n /\ s[i - 1] = x /\ j - 1 = (i - 1) + 1
      BY <1>1, <1>5, <2>1, <2>4
    <3>2. QED
      BY <1>1, <2>2, <3>1 DEF Next2
  <2>5. QED
    BY <2>3, <2>4
<1>12. ASSUME NEW x, NEW y, Next2(x, y, s) PROVE Next2(x, y, t)
  <2>1. PICK i \in 1..n, j \in 1..n : j = i + 1 /\ s[i] = x /\ s[j] = y
    BY <1>1, <1>12 DEF Next2
  <2>2. QED
    BY <1>1, <1>6, <2>1 DEF Next2
<1>13. s # <<>> => Next2(f, Head(s), t)
  <2>1. SUFFICES ASSUME s # <<>> PROVE Next2(f, Head(s), t)
    OBVIOUS
  <2>2. 1 \in 1..n /\ 1 + 1 \in 1..(n + 1) /\ t[1 + 1] = Head(s)
    BY <1>1, <1>4, <2>1
  <2>3. QED
    BY <1>1, <1>6, <2>2 DEF Next2
<1>14. QED
  BY <1>1, <1>2, <1>3, <1>7, <1>8, <1>9, <1>10, <1>11, <1>12, <1>13 DEF t

LEMMA Popped ==
  ASSUME NEW S, NEW s \in Seq(S), s # <<>>
  PROVE  /\ Head(s) \in S /\ Tail(s) \in Seq(S) /\ s = Push(Head(s), Tail(s))
         /\ Items(s) = Items(Tail(s)) \cup {Head(s)}
         /\ \A x, y : Follows(x, y, s) <=>
              Follows(x, y, Tail(s)) \/ (x = Head(s) /\ y \in Items(Tail(s)))
         /\ \A x, y : Next2(x, y, s) <=>
              \/ Next2(x, y, Tail(s))
              \/ Tail(s) # <<>> /\ x = Head(s) /\ y = Head(Tail(s))
<1>1. Head(s) \in S /\ Tail(s) \in Seq(S) /\ s = Push(Head(s), Tail(s))
  BY DEF Push
<1>2. PICK f \in S, r \in Seq(S) : f = Head(s) /\ r = Tail(s)
  BY <1>1
<1>3. s = Push(f, r)
  BY <1>1, <1>2
<1>4. /\ Items(Push(f, r)) = Items(r) \cup {f}
      /\ \A x, y : Follows(x, y, Push(f, r)) <=>
           Follows(x, y, r) \/ (x = f /\ y \in Items(r))
      /\ \A x, y : Next2(x, y, Push(f, r)) <=>
           Next2(x, y, r) \/ (r # <<>> /\ x = f /\ y = Head(r))
  BY Pushed
<1>5. QED
  BY <1>1, <1>2, <1>3, <1>4

-----------------------------------------------------------------------------
(* The items of the queues and the frames of the stack. *)

LEMMA EditKinds ==
  ASSUME NEW i \in UpdateItems \cup RetryItems
  PROVE  /\ i.kind = "update" => \E u \in Updates : i = UpdateItem(u)
         /\ i.kind # "update" => i \in RetryItems
         /\ i \in RetryItems => i.kind # "update"
BY DEF UpdateItems, RetryItems, UpdateItem, RetryItem, RetrySync

LEMMA BlockKinds ==
  ASSUME NEW i \in UpdateItems \cup {NoopItem, RelayoutItem, TraitsItem}
  PROVE  /\ i.kind = "update" => \E u \in Updates : i = UpdateItem(u)
         /\ i.kind = "noop" => i = NoopItem
         /\ i.kind = "relayout" => i = RelayoutItem
         /\ i.kind = "traits" => i = TraitsItem
BY DEF UpdateItems, UpdateItem, NoopItem, RelayoutItem, TraitsItem

LEMMA MainKinds ==
  ASSUME NEW i \in {RunItem, TraitsChanged} \cup RetryItems
  PROVE  /\ i.kind = "retry" \/ i.kind = "retrySync" => i \in RetryItems
         /\ i.kind = "run" => i = RunItem
         /\ i.kind = "environment" => i = TraitsChanged
BY DEF RetryItems, RunItem, TraitsChanged, RetryItem, RetrySync

LEMMA ItemFacts ==
  ASSUME NEW u, NEW v
  PROVE  /\ UpdateItem(u).kind = "update" /\ UpdateItem(u).update = u
         /\ UpdateItem(u) = UpdateItem(v) => u = v
         /\ NoopItem.kind = "noop" /\ RelayoutItem.kind = "relayout"
         /\ TraitsItem.kind = "traits"
BY DEF UpdateItem, NoopItem, RelayoutItem, TraitsItem

LEMMA FrameKinds ==
  ASSUME NEW f \in Frames
  PROVE  /\ f.kind = "submitting" => \E u \in Updates : f = Submitting(u)
         /\ f.kind = "completion" => \E u \in Updates : f = Completion(u)
         /\ f.kind = "waiting" =>
              \E i \in {NoopItem, RelayoutItem, TraitsItem}, m \in Maps : f = Waiting(i, m)
         /\ f.kind = "waited" => \E m \in Maps : f = Waited(m)
         /\ f.kind = "checking" => \E r \in RetryItems : f = Checking(r)
         /\ f.kind = "synchronizing" => \E S \in SUBSET SyncBlocks : f = Synchronizing(S)
         /\ f.kind = "clearing" => f = Clearing
BY DEF Frames, Submitting, Completion, Waiting, Waited, Checking, Synchronizing,
       Running, Clearing, Callback, RetryItems

LEMMA FrameFacts ==
  ASSUME NEW u, NEW i, NEW m, NEW r, NEW S
  PROVE  /\ Submitting(u).kind = "submitting" /\ Submitting(u).update = u
         /\ Completion(u).kind = "completion" /\ Completion(u).update = u
         /\ Waiting(i, m).kind = "waiting" /\ Waiting(i, m).item = i
         /\ Waiting(i, m).from = m
         /\ Waited(m).kind = "waited" /\ Waited(m).from = m
         /\ Checking(r).kind = "checking" /\ Checking(r).retry = r
         /\ Synchronizing(S).kind = "synchronizing" /\ Synchronizing(S).left = S
         /\ Running.kind = "running" /\ Clearing.kind = "clearing"
         /\ Callback.kind = "callback"
BY DEF Submitting, Completion, Waiting, Waited, Checking, Synchronizing,
       Running, Clearing, Callback

LEMMA FrameMembers ==
  /\ \A u \in Updates : Submitting(u) \in Frames /\ Completion(u) \in Frames
  /\ \A i \in {NoopItem, RelayoutItem, TraitsItem}, m \in Maps : Waiting(i, m) \in Frames
  /\ \A m \in Maps : Waited(m) \in Frames
  /\ \A r \in RetryItems : Checking(r) \in Frames
  /\ \A S \in SUBSET SyncBlocks : Synchronizing(S) \in Frames
  /\ Running \in Frames /\ Clearing \in Frames /\ Callback \in Frames
BY DEF Frames, RetryItems

-----------------------------------------------------------------------------
(* The stack. *)

\* A method that may call another one.
Plain(s) ==
  s = <<>> \/ Head(s).kind \notin {"submitting", "waiting", "waited", "clearing"}

\* No update is submitted or completed: a step with this next stack moves none.
Calm(s) ==
  /\ s \in Seq(Frames) /\ StackOK(s)
  /\ \A u \in Updates :
       /\ Submitting(u) \in Items(s) => Submitting(u) \in Items(stack)
       /\ Completion(u) \in Items(s) => Completion(u) \in Items(stack)
       /\ Follows(Completion(u), Completion(u), s) =>
            Follows(Completion(u), Completion(u), stack)

LEMMA PushedStackOK ==
  ASSUME NEW s \in Seq(Frames), StackOK(s), NEW f \in Frames,
         s # <<>> => Below(f, Head(s))
  PROVE  StackOK(Push(f, s))
<1>1. \A x, y : Next2(x, y, Push(f, s)) <=>
                 Next2(x, y, s) \/ (s # <<>> /\ x = f /\ y = Head(s))
  BY Pushed
<1>2. QED
  BY <1>1 DEF StackOK

LEMMA PlainBelow ==
  ASSUME NEW s \in Seq(Frames), Plain(s), NEW f, s # <<>>
  PROVE  Below(f, Head(s))
BY DEF Plain, Below

LEMMA PoppedStackOK ==
  ASSUME NEW s \in Seq(Frames), StackOK(s), s # <<>>
  PROVE  /\ StackOK(Tail(s))
         /\ Tail(s) # <<>> => Below(Head(s), Head(Tail(s)))
         /\ Head(s).kind \notin {"running", "waiting", "waited"} => Plain(Tail(s))
<1>1. Head(s) \in Frames /\ Tail(s) \in Seq(Frames)
  BY Popped
<1>2. StackOK(Tail(s))
  BY Popped DEF StackOK
<1>3. Tail(s) # <<>> => Head(Tail(s)) \in Frames /\ Below(Head(s), Head(Tail(s)))
  BY <1>1, Popped DEF StackOK
<1>4. QED
  BY <1>2, <1>3 DEF Below, Plain

LEMMA CalmPush ==
  ASSUME NEW s, Calm(s), NEW f \in Frames, s # <<>> => Below(f, Head(s)),
         f.kind \notin {"submitting", "completion"}
  PROVE  Calm(Push(f, s))
<1>1. s \in Seq(Frames) /\ StackOK(s)
  BY DEF Calm
<1>2. Push(f, s) \in Seq(Frames) /\ StackOK(Push(f, s))
  BY <1>1, Pushed, PushedStackOK
<1>3. \A u \in Updates : f # Submitting(u) /\ f # Completion(u)
  BY FrameFacts
<1>4. /\ Items(Push(f, s)) = Items(s) \cup {f}
      /\ \A x, y : Follows(x, y, Push(f, s)) <=>
           Follows(x, y, s) \/ (x = f /\ y \in Items(s))
  BY <1>1, Pushed
<1>5. QED
  BY <1>2, <1>3, <1>4 DEF Calm

LEMMA CalmPop ==
  ASSUME stack \in Seq(Frames), StackOK(stack)
  PROVE  /\ Calm(stack)
         /\ stack # <<>> => Calm(Rest) /\ Rest \in Seq(Frames) /\ StackOK(Rest)
<1>1. Calm(stack)
  BY DEF Calm
<1>2. ASSUME stack # <<>> PROVE Calm(Rest) /\ Rest \in Seq(Frames) /\ StackOK(Rest)
  <2>1. Rest \in Seq(Frames) /\ StackOK(Rest)
    BY <1>2, Popped, PoppedStackOK DEF Rest
  <2>2. /\ Items(stack) = Items(Rest) \cup {Head(stack)}
        /\ \A x, y : Follows(x, y, Rest) => Follows(x, y, stack)
    BY <1>2, Popped DEF Rest
  <2>3. QED
    BY <2>1, <2>2 DEF Calm
<1>3. QED
  BY <1>1, <1>2

-----------------------------------------------------------------------------
(* Steps that move no update. *)

EditKept ==
  /\ editingQueue' \in Seq(UpdateItems \cup RetryItems)
  /\ EditingOK'
  /\ \A u \in Updates :
       /\ Queued(u)' => Queued(u)
       /\ Fresh(u)' <=> Fresh(u)
       /\ \A v \in Updates : Follows(UpdateItem(u), UpdateItem(v), editingQueue)' =>
                               Follows(UpdateItem(u), UpdateItem(v), editingQueue)

BlocksKept ==
  /\ blocks' \in Seq(UpdateItems \cup {NoopItem, RelayoutItem, TraitsItem})
  /\ \A u \in Updates :
       /\ Blocked(u)' <=> Blocked(u)
       /\ \A v \in Updates : Follows(UpdateItem(u), UpdateItem(v), blocks)' =>
                               Follows(UpdateItem(u), UpdateItem(v), blocks)

Quiet ==
  /\ stack' \in Seq(Frames) /\ Calm(stack')
  /\ EditKept /\ BlocksKept
  /\ UNCHANGED <<deferred, animating, status, mapOf>>

\* Nor does such a step change a map, or the order of the updates.
Kept == EditKept /\ BlocksKept /\ UNCHANGED <<pendingMap, visibleMap, mapOf, deferred>>

LEMMA QuietStep ==
  ASSUME PipelineOK, Quiet
  PROVE  StackOK(stack)' /\ EditingOK' /\ TokensOK'
<1>1. StackOK(stack') /\ EditingOK'
  BY DEF Quiet, Calm, EditKept
<1>2. ASSUME NEW u \in Updates PROVE (OnePlace(u) /\ StatusOK(u))'
  <2>1. OnePlace(u) /\ StatusOK(u)
    BY DEF PipelineOK, TokensOK
  <2>2. /\ Held(u)' <=> Held(u)
        /\ Follows(u, u, deferred)' <=> Follows(u, u, deferred)
        /\ status'[u] = status[u] /\ mapOf'[u] = mapOf[u] /\ animating' = animating
    BY DEF Quiet, Held
  <2>3. /\ Blocked(u)' <=> Blocked(u)
        /\ Fresh(u)' <=> Fresh(u)
        /\ Queued(u)' => Queued(u)
        /\ Follows(UpdateItem(u), UpdateItem(u), blocks)' =>
             Follows(UpdateItem(u), UpdateItem(u), blocks)
        /\ Follows(UpdateItem(u), UpdateItem(u), editingQueue)' =>
             Follows(UpdateItem(u), UpdateItem(u), editingQueue)
    BY DEF Quiet, EditKept, BlocksKept
  <2>4. /\ Submitting(u) \in Items(stack') => Submitting(u) \in Items(stack)
        /\ Completion(u) \in Items(stack') => Completion(u) \in Items(stack)
        /\ Follows(Completion(u), Completion(u), stack)' =>
             Follows(Completion(u), Completion(u), stack)
    BY DEF Quiet, Calm
  <2>5. OnePlace(u)'
    BY <2>1, <2>2, <2>3, <2>4 DEF OnePlace
  <2>6. Way(u)' <=> Way(u)
    BY <2>2, <2>3 DEF Way
  <2>7. StatusOK(u)'
    BY <2>1, <2>2, <2>3, <2>4, <2>6 DEF StatusOK
  <2>8. QED
    BY <2>5, <2>7
<1>3. QED
  BY <1>1, <1>2 DEF TokensOK

-----------------------------------------------------------------------------
(* The editing queue and the blocks, step by step. *)

EditItems == UpdateItems \cup RetryItems
BlockItems == UpdateItems \cup {NoopItem, RelayoutItem, TraitsItem}

LEMMA EditedUpdate ==
  ASSUME PipelineOK, editing # "idle"
  PROVE  /\ editingQueue # <<>> /\ Tail(editingQueue) \in Seq(EditItems)
         /\ \E w \in Updates : /\ Head(editingQueue) = UpdateItem(w)
                               /\ UpdateItem(w) \notin Items(Tail(editingQueue))
<1>1. /\ editingQueue # <<>> /\ Head(editingQueue).kind = "update"
      /\ editingQueue \in Seq(EditItems)
  BY DEF PipelineOK, TypeOK, EditingOK, EditItems
<1>2. Head(editingQueue) \in EditItems /\ Tail(editingQueue) \in Seq(EditItems)
  BY <1>1, Popped
<1>3. PICK w \in Updates : Head(editingQueue) = UpdateItem(w)
  BY <1>1, <1>2, EditKinds DEF EditItems
<1>4. ~Follows(UpdateItem(w), UpdateItem(w), editingQueue)
  BY DEF PipelineOK, TokensOK, OnePlace
<1>5. UpdateItem(w) \notin Items(Tail(editingQueue))
  BY <1>1, <1>3, <1>4, Popped
<1>6. QED
  BY <1>1, <1>2, <1>3, <1>5

LEMMA EditSame ==
  ASSUME PipelineOK, UNCHANGED editVars
  PROVE  EditKept
<1>1. UNCHANGED editingQueue /\ UNCHANGED editing /\ UNCHANGED editingCount
  BY DEF editVars
<1>2. editingQueue \in Seq(UpdateItems \cup RetryItems) /\ EditingOK
  BY DEF PipelineOK, TypeOK
<1>3. EditingOK'
  BY <1>1, <1>2 DEF EditingOK, Counted, CountedQueue
<1>4. \A u \in Updates : (Queued(u)' <=> Queued(u)) /\ (Fresh(u)' <=> Fresh(u))
  BY <1>1 DEF Queued, Fresh, FreshQueue
<1>5. QED
  BY <1>1, <1>2, <1>3, <1>4 DEF EditKept

LEMMA EditRetry ==
  ASSUME PipelineOK, NEW r \in RetryItems,
         editingQueue' = Append(editingQueue, r), UNCHANGED <<editing, editingCount>>
  PROVE  EditKept
<1>1. editingQueue \in Seq(EditItems) /\ EditingOK /\ r \in EditItems
  BY DEF PipelineOK, TypeOK, EditItems
<1>2. /\ editingQueue' \in Seq(EditItems) /\ editingQueue' # <<>>
      /\ Items(editingQueue') = Items(editingQueue) \cup {r}
      /\ \A x, y : Follows(x, y, editingQueue') <=>
           Follows(x, y, editingQueue) \/ (x \in Items(editingQueue) /\ y = r)
      /\ editingQueue # <<>> => /\ Head(editingQueue') = Head(editingQueue)
                                /\ Tail(editingQueue') = Append(Tail(editingQueue), r)
  BY <1>1, Appended
<1>3. \A u \in Updates : UpdateItem(u) # r
  BY <1>1, EditKinds, ItemFacts DEF EditItems
<1>4. editing # "idle" => Items(Tail(editingQueue')) = Items(Tail(editingQueue)) \cup {r}
  <2>1. SUFFICES ASSUME editing # "idle"
                 PROVE Items(Tail(editingQueue')) = Items(Tail(editingQueue)) \cup {r}
    OBVIOUS
  <2>2. editingQueue # <<>> /\ Tail(editingQueue) \in Seq(EditItems)
    BY <2>1, EditedUpdate
  <2>3. Tail(editingQueue') = Append(Tail(editingQueue), r)
    BY <1>2, <2>2
  <2>4. PICK q \in Seq(EditItems) : q = Tail(editingQueue)
    BY <2>2
  <2>5. Items(Append(q, r)) = Items(q) \cup {r}
    BY <1>1, Appended
  <2>6. QED
    BY <2>3, <2>4, <2>5
<1>5. UNCHANGED editing /\ UNCHANGED editingCount
  OBVIOUS
<1>6. /\ Items(FreshQueue') = Items(FreshQueue) \cup {r}
      /\ Items(CountedQueue') = Items(CountedQueue) \cup {r}
  <2>1. CASE editing = "idle"
    BY <1>2, <1>5, <2>1 DEF FreshQueue, CountedQueue
  <2>2. CASE editing # "idle"
    BY <1>2, <1>4, <1>5, <2>2 DEF FreshQueue, CountedQueue
  <2>3. QED
    BY <2>1, <2>2
<1>7. Counted' = Counted
  BY <1>3, <1>6 DEF Counted
<1>8. EditingOK'
  BY <1>1, <1>2, <1>5, <1>7 DEF EditingOK
<1>9. \A u \in Updates : (Queued(u)' <=> Queued(u)) /\ (Fresh(u)' <=> Fresh(u))
  BY <1>2, <1>3, <1>6 DEF Queued, Fresh
<1>10. QED
  BY <1>2, <1>3, <1>8, <1>9 DEF EditKept, EditItems

LEMMA EditBring ==
  ASSUME PipelineOK, editing = "idle", editingQueue # <<>>,
         Head(editingQueue) \in RetryItems,
         editingQueue' = Tail(editingQueue), UNCHANGED <<editing, editingCount>>
  PROVE  EditKept
<1>1. editingQueue \in Seq(EditItems) /\ EditingOK
  BY DEF PipelineOK, TypeOK, EditItems
<1>2. PICK r \in RetryItems : r = Head(editingQueue)
  OBVIOUS
<1>3. /\ editingQueue' \in Seq(EditItems)
      /\ Items(editingQueue) = Items(editingQueue') \cup {r}
      /\ \A x, y : Follows(x, y, editingQueue') => Follows(x, y, editingQueue)
  BY <1>1, <1>2, Popped
<1>4. \A u \in Updates : UpdateItem(u) # r
  BY <1>2, EditKinds, ItemFacts
<1>5. FreshQueue' = editingQueue' /\ FreshQueue = editingQueue
  BY DEF FreshQueue
<1>6. CountedQueue' = editingQueue' /\ CountedQueue = editingQueue
  BY DEF CountedQueue
<1>7. Counted' = Counted
  BY <1>3, <1>4, <1>6 DEF Counted
<1>8. EditingOK'
  BY <1>1, <1>7 DEF EditingOK
<1>9. \A u \in Updates : (Queued(u)' <=> Queued(u)) /\ (Fresh(u)' <=> Fresh(u))
  BY <1>3, <1>4, <1>5 DEF Queued, Fresh
<1>10. QED
  BY <1>3, <1>8, <1>9 DEF EditKept, EditItems

LEMMA EditDispatch ==
  ASSUME PipelineOK, editing = "pushed", editing' = "dispatched",
         UNCHANGED <<editingQueue, editingCount>>
  PROVE  EditKept
<1>1. editingQueue \in Seq(EditItems) /\ EditingOK
  BY DEF PipelineOK, TypeOK, EditItems
<1>2. FreshQueue' = FreshQueue /\ CountedQueue' = CountedQueue
  BY DEF FreshQueue, CountedQueue
<1>3. Counted' = Counted
  BY <1>2 DEF Counted
<1>4. EditingOK'
  BY <1>1, <1>3 DEF EditingOK
<1>5. \A u \in Updates : (Queued(u)' <=> Queued(u)) /\ (Fresh(u)' <=> Fresh(u))
  BY <1>2 DEF Queued, Fresh
<1>6. QED
  BY <1>1, <1>4, <1>5 DEF EditKept, EditItems

LEMMA EditUncount ==
  ASSUME PipelineOK, editing = "dispatched", editing' = "counted",
         UNCHANGED editingQueue, editingCount' = editingCount - 1
  PROVE  EditKept /\ editingCount' \in Nat
<1>1. editingQueue \in Seq(EditItems) /\ EditingOK
  BY DEF PipelineOK, TypeOK, EditItems
<1>2. FreshQueue' = FreshQueue /\ CountedQueue' = Tail(editingQueue)
      /\ CountedQueue = editingQueue
  BY DEF FreshQueue, CountedQueue
<1>3. PICK w \in Updates : /\ Head(editingQueue) = UpdateItem(w)
                           /\ UpdateItem(w) \notin Items(Tail(editingQueue))
  BY EditedUpdate
<1>4. Items(editingQueue) = Items(Tail(editingQueue)) \cup {UpdateItem(w)}
  BY <1>1, <1>3, EditedUpdate, Popped
<1>5. Counted' = Counted \ {w} /\ w \in Counted
  BY <1>2, <1>3, <1>4, ItemFacts DEF Counted
<1>6. IsFiniteSet(Counted') /\ editingCount' = Cardinality(Counted') /\ editingCount' \in Nat
  <2>1. IsFiniteSet(Counted) /\ editingCount = Cardinality(Counted)
    BY <1>1 DEF EditingOK
  <2>2. IsFiniteSet(Counted \ {w}) /\ Cardinality(Counted \ {w}) = Cardinality(Counted) - 1
    BY <1>5, <2>1, FS_RemoveElement
  <2>3. Cardinality(Counted \ {w}) \in Nat
    BY <2>2, FS_CardinalityType
  <2>4. QED
    BY <1>5, <2>1, <2>2, <2>3
<1>7. EditingOK'
  BY <1>1, <1>6 DEF EditingOK
<1>8. \A u \in Updates : (Queued(u)' <=> Queued(u)) /\ (Fresh(u)' <=> Fresh(u))
  BY <1>2 DEF Queued, Fresh
<1>9. QED
  BY <1>1, <1>6, <1>7, <1>8 DEF EditKept, EditItems

LEMMA EditLeave ==
  ASSUME PipelineOK, editing = "counted", editing' = "idle",
         editingQueue' = Tail(editingQueue), UNCHANGED editingCount
  PROVE  EditKept
<1>1. editingQueue \in Seq(EditItems) /\ EditingOK /\ editingQueue # <<>>
  BY DEF PipelineOK, TypeOK, EditItems, EditingOK
<1>2. FreshQueue' = FreshQueue /\ CountedQueue' = CountedQueue
  BY DEF FreshQueue, CountedQueue
<1>3. Counted' = Counted
  BY <1>2 DEF Counted
<1>4. EditingOK'
  BY <1>1, <1>3 DEF EditingOK
<1>5. /\ editingQueue' \in Seq(EditItems)
      /\ Items(editingQueue') \subseteq Items(editingQueue)
      /\ \A x, y : Follows(x, y, editingQueue') => Follows(x, y, editingQueue)
  BY <1>1, Popped
<1>6. \A u \in Updates : (Queued(u)' => Queued(u)) /\ (Fresh(u)' <=> Fresh(u))
  BY <1>2, <1>5 DEF Queued, Fresh
<1>7. QED
  BY <1>4, <1>5, <1>6 DEF EditKept, EditItems

LEMMA BlocksSame ==
  ASSUME PipelineOK, UNCHANGED blocks
  PROVE  BlocksKept
BY DEF PipelineOK, TypeOK, BlocksKept, Blocked

LEMMA BlocksPushed ==
  ASSUME PipelineOK, NEW i \in {NoopItem, RelayoutItem, TraitsItem},
         blocks' = Append(blocks, i)
  PROVE  BlocksKept
<1>1. blocks \in Seq(BlockItems) /\ i \in BlockItems
  BY DEF PipelineOK, TypeOK, BlockItems
<1>2. /\ blocks' \in Seq(BlockItems)
      /\ Items(blocks') = Items(blocks) \cup {i}
      /\ \A x, y : Follows(x, y, blocks') <=>
           Follows(x, y, blocks) \/ (x \in Items(blocks) /\ y = i)
  BY <1>1, Appended
<1>3. \A u \in Updates : UpdateItem(u) # i
  BY ItemFacts
<1>4. QED
  BY <1>2, <1>3 DEF BlocksKept, Blocked, BlockItems

LEMMA BlocksPopped ==
  ASSUME PipelineOK, blocks # <<>>, Head(blocks).kind # "update", blocks' = Tail(blocks)
  PROVE  BlocksKept
<1>1. blocks \in Seq(BlockItems)
  BY DEF PipelineOK, TypeOK, BlockItems
<1>2. /\ blocks' \in Seq(BlockItems)
      /\ Items(blocks) = Items(blocks') \cup {Head(blocks)}
      /\ \A x, y : Follows(x, y, blocks') => Follows(x, y, blocks)
  BY <1>1, Popped
<1>3. \A u \in Updates : UpdateItem(u) # Head(blocks)
  BY ItemFacts
<1>4. QED
  BY <1>2, <1>3 DEF BlocksKept, Blocked, BlockItems

-----------------------------------------------------------------------------
(* The steps that move no update. *)

LEMMA StackFacts ==
  ASSUME PipelineOK
  PROVE  /\ stack \in Seq(Frames) /\ StackOK(stack) /\ Calm(stack)
         /\ ClientRuns => Plain(stack)
         /\ stack # <<>> =>
              /\ Top \in Frames /\ Rest \in Seq(Frames) /\ StackOK(Rest) /\ Calm(Rest)
              /\ Rest # <<>> => Below(Top, Head(Rest))
              /\ Top.kind \notin {"running", "waiting", "waited"} => Plain(Rest)
              /\ Items(stack) = Items(Rest) \cup {Top}
              /\ stack = Push(Top, Rest)
<1>1. stack \in Seq(Frames) /\ StackOK(stack)
  BY DEF PipelineOK, TypeOK
<1>2. Calm(stack) /\ (stack # <<>> => Calm(Rest))
  BY <1>1, CalmPop
<1>3. ClientRuns => Plain(stack)
  BY DEF ClientRuns, Inside, Plain
<1>4. stack # <<>> =>
        /\ Top \in Frames /\ Rest \in Seq(Frames) /\ StackOK(Rest)
        /\ Rest # <<>> => Below(Top, Head(Rest))
        /\ Top.kind \notin {"running", "waiting", "waited"} => Plain(Rest)
        /\ Items(stack) = Items(Rest) \cup {Top}
        /\ stack = Push(Top, Rest)
  BY <1>1, Popped, PoppedStackOK DEF Top, Rest
<1>5. QED
  BY <1>1, <1>2, <1>3, <1>4

\* What a client call, or a block that main runs, may start.
LEMMA PushPlain ==
  ASSUME NEW s, Calm(s), Plain(s), NEW f \in Frames,
         f.kind \notin {"submitting", "completion"}
  PROVE  Calm(Push(f, s))
<1>1. s \in Seq(Frames)
  BY DEF Calm
<1>2. s # <<>> => Below(f, Head(s))
  BY <1>1, PlainBelow
<1>3. QED
  BY <1>2, CalmPush

LEMMA EmptyCalm == Calm(<<>>) /\ Plain(<<>>)
<1>1. <<>> \in Seq(Frames)
  OBVIOUS
<1>2. QED
  BY <1>1, Empty DEF Calm, StackOK, Plain

LEMMA StartCheckQuiet ==
  ASSUME PipelineOK, NEW r \in RetryItems, NEW rest, Calm(rest), Plain(rest),
         StartCheck(r, rest), UNCHANGED <<editing, editingCount>>
  PROVE  /\ stack' \in Seq(Frames) /\ Calm(stack') /\ EditKept
         /\ stack' = rest \/ stack' = Push(Checking(r), rest)
<1>1. Checking(r) \in Frames /\ Checking(r).kind = "checking"
  BY FrameMembers, FrameFacts
<1>2. Calm(Push(Checking(r), rest))
  BY <1>1, PushPlain
<1>3. CASE blocks = <<>>
  <2>1. stack' = Push(Checking(r), rest) /\ UNCHANGED editingQueue
    BY <1>3 DEF StartCheck, Push
  <2>2. EditKept
    BY <2>1, EditSame DEF editVars
  <2>3. QED
    BY <1>2, <2>1, <2>2 DEF Calm
<1>4. CASE blocks # <<>>
  <2>1. stack' = rest /\ editingQueue' = Append(editingQueue, r)
    BY <1>4 DEF StartCheck
  <2>2. EditKept
    BY <2>1, EditRetry
  <2>3. QED
    BY <2>1, <2>2 DEF Calm
<1>5. QED
  BY <1>3, <1>4

\* A step that changes the stack, and neither queue.
LEMMA QuietStack ==
  ASSUME PipelineOK, Calm(stack'), UNCHANGED <<editVars, blocks>>,
         UNCHANGED <<deferred, animating, status, mapOf>>
  PROVE  Quiet
<1>1. stack' \in Seq(Frames)
  BY DEF Calm
<1>2. EditKept /\ BlocksKept
  BY EditSame, BlocksSame
<1>3. QED
  BY <1>1, <1>2 DEF Quiet

LEMMA QuietClient ==
  ASSUME PipelineOK,
         \/ WaitUntilAllUpdatesAreProcessed \/ RelayoutAllNodes \/ ClearData
         \/ \E c \in Callbacks : OnDidFinishProcessingUpdates(c)
         \/ \E b \in SyncBlocks : OnDidFinishSynchronizing(b)
         \/ \E onMain \in BOOLEAN : EnvironmentChange(onMain)
  PROVE  Quiet /\ TypeOK'
<1> USE DEF dataVars, viewVars, updateVars, mapVars, syncVars, traitVars, editVars
<1>1. stack \in Seq(Frames) /\ Calm(stack) /\ (ClientRuns => Plain(stack)) /\ TypeOK
  BY StackFacts DEF PipelineOK
<1>2. ASSUME NEW i \in {NoopItem, RelayoutItem, TraitsItem}, ClientRuns
      PROVE  /\ Calm(Push(Waiting(i, pendingMap), stack))
             /\ Push(Waiting(i, pendingMap), stack) \in Seq(Frames)
  <2>1. pendingMap \in Maps
    BY <1>1 DEF TypeOK
  <2>2. Waiting(i, pendingMap) \in Frames /\ Waiting(i, pendingMap).kind = "waiting"
    BY <2>1, FrameMembers, FrameFacts
  <2>3. Calm(Push(Waiting(i, pendingMap), stack))
    BY <1>1, <1>2, <2>2, PushPlain
  <2>4. QED
    BY <2>3 DEF Calm
<1>3. CASE WaitUntilAllUpdatesAreProcessed
  <2>1. stack' = Push(Waiting(NoopItem, pendingMap), stack) /\ ClientRuns
    BY <1>3 DEF WaitUntilAllUpdatesAreProcessed, Push
  <2>2. Calm(stack') /\ stack' \in Seq(Frames)
    BY <1>2, <2>1
  <2>3. UNCHANGED notStack
    BY <1>3 DEF WaitUntilAllUpdatesAreProcessed
  <2>4. QED
    BY <1>1, <2>2, <2>3, QuietStack DEF notStack, TypeOK
<1>4. CASE RelayoutAllNodes
  <2>1. stack' = Push(Waiting(RelayoutItem, pendingMap), stack) /\ ClientRuns
    BY <1>4 DEF RelayoutAllNodes, Push
  <2>2. Calm(stack') /\ stack' \in Seq(Frames)
    BY <1>2, <2>1
  <2>3. UNCHANGED notStack
    BY <1>4 DEF RelayoutAllNodes
  <2>4. QED
    BY <1>1, <2>2, <2>3, QuietStack DEF notStack, TypeOK
<1>5. CASE ClearData
  <2>1. stack' = Push(Waiting(NoopItem, pendingMap), Push(Clearing, stack)) /\ ClientRuns
    BY <1>1, <1>5 DEF ClearData, Push
  <2>2. Clearing \in Frames /\ Clearing.kind = "clearing"
    BY FrameMembers, FrameFacts
  <2>3. Calm(Push(Clearing, stack)) /\ Push(Clearing, stack) \in Seq(Frames)
    BY <1>1, <2>1, <2>2, PushPlain DEF Calm
  <2>4. pendingMap \in Maps
    BY <1>1 DEF TypeOK
  <2>5. /\ Waiting(NoopItem, pendingMap) \in Frames
        /\ Waiting(NoopItem, pendingMap).kind = "waiting"
        /\ Waiting(NoopItem, pendingMap).item = NoopItem
    BY <2>4, FrameMembers, FrameFacts
  <2>6. Below(Waiting(NoopItem, pendingMap), Head(Push(Clearing, stack)))
    <3>1. Head(Push(Clearing, stack)) = Clearing
      BY <1>1, <2>2, Pushed
    <3>2. QED
      BY <2>2, <2>5, <3>1 DEF Below
  <2>7. Calm(stack') /\ stack' \in Seq(Frames)
    BY <2>1, <2>3, <2>5, <2>6, CalmPush DEF Calm
  <2>8. UNCHANGED notStack
    BY <1>5 DEF ClearData
  <2>9. QED
    BY <1>1, <2>7, <2>8, QuietStack DEF notStack, TypeOK
<1>6. ASSUME NEW c \in Callbacks, OnDidFinishProcessingUpdates(c) PROVE Quiet /\ TypeOK'
  <2>1. RetryItem(c) \in RetryItems
    BY DEF RetryItems
  <2>2. /\ StartCheck(RetryItem(c), stack) /\ ClientRuns
        /\ UNCHANGED <<editing, editingCount>> /\ UNCHANGED blocks
        /\ UNCHANGED <<dataVars, mainQueue, ran>>
    BY <1>6 DEF OnDidFinishProcessingUpdates
  <2>3. stack' \in Seq(Frames) /\ Calm(stack') /\ EditKept
    BY <1>1, <2>1, <2>2, StartCheckQuiet
  <2>4. BlocksKept
    BY <2>2, BlocksSame
  <2>5. QED
    BY <1>1, <2>2, <2>3, <2>4 DEF Quiet, TypeOK, EditKept
<1>7. ASSUME NEW b \in SyncBlocks, OnDidFinishSynchronizing(b) PROVE Quiet /\ TypeOK'
  <2>1. Callback \in Frames /\ Callback.kind = "callback"
    BY FrameMembers, FrameFacts
  <2>2. ClientRuns /\ (stack' = Push(Callback, stack) \/ stack' = stack)
    BY <1>7 DEF OnDidFinishSynchronizing, Push
  <2>3. Calm(stack') /\ stack' \in Seq(Frames)
    BY <1>1, <2>1, <2>2, PushPlain DEF Calm
  <2>4. /\ syncBlocks' \in SUBSET SyncBlocks
        /\ ran' \in [Callbacks \cup SyncBlocks -> Nat]
    <3>1. /\ syncBlocks' = syncBlocks \/ syncBlocks' = syncBlocks \cup {b}
          /\ ran' = ran \/ ran' = [ran EXCEPT ![b] = @ + 1]
      BY <1>7 DEF OnDidFinishSynchronizing
    <3>2. syncBlocks \in SUBSET SyncBlocks /\ ran \in [Callbacks \cup SyncBlocks -> Nat]
      BY <1>1 DEF TypeOK
    <3>3. QED
      BY <1>7, <3>1, <3>2
  <2>5. UNCHANGED <<mapVars, synchronized, editVars, updateVars, viewVars,
                    traitVars, blocks, mainQueue>>
    BY <1>7 DEF OnDidFinishSynchronizing
  <2>6. QED
    BY <1>1, <2>3, <2>4, <2>5, QuietStack DEF TypeOK
<1>8. ASSUME NEW onMain \in BOOLEAN, EnvironmentChange(onMain) PROVE Quiet /\ TypeOK'
  <2>1. traits' \in 0 .. MaxTraits
    BY <1>1, <1>8, BoundsAssumption DEF EnvironmentChange, TypeOK
  <2>2. UNCHANGED <<mapVars, syncVars, editVars, updateVars, viewVars,
                    elementTraits, blocks, ran>>
    BY <1>8 DEF EnvironmentChange
  <2>3. CASE onMain
    <3>1. /\ ClientRuns /\ UNCHANGED mainQueue
          /\ stack' = Push(Waiting(TraitsItem, pendingMap), stack) \/ stack' = stack
      BY <1>1, <1>8, <2>3 DEF EnvironmentChange, Push
    <3>2. Calm(stack') /\ stack' \in Seq(Frames)
      BY <1>1, <1>2, <3>1
    <3>3. QED
      BY <1>1, <2>1, <2>2, <3>1, <3>2, QuietStack DEF TypeOK
  <2>4. CASE ~onMain
    <3>1. UNCHANGED stack /\ mainQueue' = Append(mainQueue, TraitsChanged)
      BY <1>8, <2>4 DEF EnvironmentChange
    <3>2. mainQueue' \in Seq({RunItem, TraitsChanged} \cup RetryItems)
      BY <1>1, <3>1 DEF TypeOK
    <3>3. Calm(stack')
      BY <1>1, <3>1
    <3>4. Quiet
      BY <2>2, <3>3, QuietStack
    <3>5. QED
      BY <1>1, <2>1, <2>2, <3>1, <3>2, <3>4 DEF TypeOK
  <2>5. QED
    BY <2>3, <2>4
<1>9. QED
  BY <1>3, <1>4, <1>5, <1>6, <1>7, <1>8

LEMMA QuietMain ==
  ASSUME PipelineOK,
         \/ CallbackReturns \/ EndWait \/ WaitReturns \/ FinishClear
         \/ RunNoop \/ RunRelayout \/ RunTraits \/ QueueDrained
  PROVE  Quiet /\ TypeOK'
<1> USE DEF dataVars, viewVars, updateVars, mapVars, syncVars, traitVars, editVars
<1>1. stack \in Seq(Frames) /\ Calm(stack) /\ TypeOK
  BY StackFacts DEF PipelineOK
<1>2. stack # <<>> => /\ Top \in Frames /\ Rest \in Seq(Frames) /\ Calm(Rest)
                      /\ Rest # <<>> => Below(Top, Head(Rest))
  BY StackFacts
<1>3. CASE CallbackReturns \/ WaitReturns \/ QueueDrained
  <2>1. stack # <<>> /\ stack' = Rest /\ UNCHANGED notStack
    BY <1>3 DEF CallbackReturns, WaitReturns, QueueDrained, Inside
  <2>2. Calm(stack') /\ stack' \in Seq(Frames)
    BY <1>2, <2>1
  <2>3. QED
    BY <1>1, <2>1, <2>2, QuietStack DEF notStack, TypeOK
<1>4. CASE EndWait
  <2>1. /\ stack # <<>> /\ Top.kind = "waiting"
        /\ blocks' = Append(blocks, Top.item)
        /\ UNCHANGED <<dataVars, editVars, mainQueue, ran>>
    BY <1>4 DEF EndWait, Inside, Top
  <2>2. PICK i \in {NoopItem, RelayoutItem, TraitsItem}, m \in Maps : Top = Waiting(i, m)
    BY <1>2, <2>1, FrameKinds
  <2>3. Top.item = i /\ Top.from = m
    BY <2>2, FrameFacts
  <2>4. BlocksKept
    BY <2>1, <2>3, BlocksPushed
  <2>5. EditKept
    BY <2>1, EditSame
  <2>6. /\ Waited(m) \in Frames /\ Waited(m).kind = "waited"
        /\ Running \in Frames /\ Running.kind = "running"
    BY FrameMembers, FrameFacts
  <2>7. /\ Rest \in Seq(Frames) /\ Calm(Rest)
        /\ Rest # <<>> => /\ Head(Rest).kind \notin {"submitting", "waiting", "waited"}
                          /\ Head(Rest).kind = "clearing" => i = NoopItem
    BY <1>2, <2>1, <2>3 DEF Below
  <2>8. Calm(stack')
    <3>1. CASE i = NoopItem
      <4>1. stack' = Push(Running, Push(Waited(m), Rest))
        BY <1>4, <2>3, <2>7, <3>1 DEF EndWait, Push
      <4>2. Rest # <<>> => Below(Waited(m), Head(Rest))
        BY <2>6, <2>7 DEF Below
      <4>3. Calm(Push(Waited(m), Rest))
        BY <2>6, <2>7, <4>2, CalmPush
      <4>4. Head(Push(Waited(m), Rest)) = Waited(m)
        BY <2>6, <2>7, Pushed
      <4>5. Below(Running, Waited(m))
        BY <2>6 DEF Below
      <4>6. QED
        BY <2>6, <4>1, <4>3, <4>4, <4>5, CalmPush
    <3>2. CASE i # NoopItem
      <4>1. stack' = Push(Running, Rest)
        BY <1>4, <2>3, <2>7, <3>2 DEF EndWait, Push
      <4>2. Rest # <<>> => Below(Running, Head(Rest))
        BY <2>6, <2>7, <3>2 DEF Below
      <4>3. QED
        BY <2>6, <2>7, <4>1, <4>2, CalmPush
    <3>3. QED
      BY <3>1, <3>2
  <2>9. Quiet
    BY <2>1, <2>4, <2>5, <2>8 DEF Quiet, Calm
  <2>10. QED
    BY <1>1, <2>1, <2>4, <2>9 DEF Quiet, BlocksKept, TypeOK
<1>5. ASSUME MakeMap
      PROVE  /\ pendingMap' \in Maps
             /\ elementTraits' \in [Maps -> 0 .. MaxTraits]
  <2>1. /\ pendingMap \in Maps /\ traits \in 0 .. MaxTraits
        /\ elementTraits \in [Maps -> 0 .. MaxTraits]
    BY <1>1 DEF TypeOK
  <2>2. pendingMap' = pendingMap + 1 /\ pendingMap < MaxMaps
    BY <1>5 DEF MakeMap
  <2>3. pendingMap' \in Maps
    BY <2>1, <2>2, BoundsAssumption DEF Maps
  <2>4. elementTraits' = [elementTraits EXCEPT ![pendingMap + 1] = traits]
    BY <1>5 DEF MakeMap
  <2>5. QED
    BY <2>1, <2>3, <2>4
<1>6. CASE FinishClear
  <2>1. /\ stack # <<>> /\ stack' = Rest /\ MakeMap /\ visibleMap' = pendingMap'
        /\ UNCHANGED <<syncVars, editVars, updateVars, viewVars, traits, blocks,
                       mainQueue, ran>>
    BY <1>6 DEF FinishClear, Inside
  <2>2. Calm(stack') /\ stack' \in Seq(Frames)
    BY <1>2, <2>1
  <2>3. Quiet
    BY <2>1, <2>2, QuietStack
  <2>4. QED
    BY <1>1, <1>5, <2>1, <2>2, <2>3 DEF TypeOK
<1>7. ASSUME NEW k \in {"noop", "relayout", "traits"}, NextBlock(k)
      PROVE  BlocksKept
  <2>1. blocks # <<>> /\ Head(blocks).kind # "update" /\ blocks' = Tail(blocks)
    BY <1>7 DEF NextBlock
  <2>2. QED
    BY <2>1, BlocksPopped
<1>8. CASE RunNoop
  <2>1. NextBlock("noop") /\ UNCHANGED <<dataVars, editVars, mainQueue, stack, ran>>
    BY <1>8 DEF RunNoop
  <2>2. BlocksKept /\ EditKept
    BY <1>7, <2>1, EditSame
  <2>3. QED
    BY <1>1, <2>1, <2>2 DEF Quiet, BlocksKept, TypeOK
<1>9. CASE RunRelayout
  <2>1. /\ NextBlock("relayout") /\ MakeMap /\ visibleMap' = pendingMap'
        /\ UNCHANGED <<syncVars, editVars, updateVars, viewVars, traits, mainQueue,
                       stack, ran>>
    BY <1>9 DEF RunRelayout
  <2>2. BlocksKept /\ EditKept
    BY <1>7, <2>1, EditSame
  <2>3. QED
    BY <1>1, <1>5, <2>1, <2>2 DEF Quiet, BlocksKept, TypeOK
<1>10. CASE RunTraits
  <2>1. /\ NextBlock("traits")
        /\ UNCHANGED <<mapVars, syncVars, editVars, updateVars, viewVars, traits,
                       mainQueue, stack, ran>>
        /\ elementTraits' = [m \in Maps |-> IF m <= visibleMap THEN traits
                                                              ELSE elementTraits[m]]
    BY <1>10 DEF RunTraits
  <2>2. BlocksKept /\ EditKept
    BY <1>7, <2>1, EditSame
  <2>3. elementTraits' \in [Maps -> 0 .. MaxTraits]
    <3>1. traits \in 0 .. MaxTraits /\ elementTraits \in [Maps -> 0 .. MaxTraits]
      BY <1>1 DEF TypeOK
    <3>2. QED
      BY <2>1, <3>1
  <2>4. QED
    BY <1>1, <2>1, <2>2, <2>3 DEF Quiet, BlocksKept, TypeOK
<1>11. QED
  BY <1>3, <1>4, <1>6, <1>8, <1>9, <1>10

LEMMA QuietRest ==
  ASSUME PipelineOK,
         \/ FinishCheck \/ \E b \in SyncBlocks : RunSyncBlock(b)
         \/ RemoveSyncBlocks \/ RunBlocks \/ Retry \/ EnvironmentDidChange
         \/ DispatchRun \/ Uncount \/ LeaveGroup \/ BringRetryToMain
  PROVE  Quiet /\ TypeOK'
<1> USE DEF dataVars, viewVars, updateVars, mapVars, syncVars, traitVars
<1>1. stack \in Seq(Frames) /\ Calm(stack) /\ TypeOK
  BY StackFacts DEF PipelineOK
<1>2. stack # <<>> =>
        /\ Top \in Frames /\ Rest \in Seq(Frames) /\ Calm(Rest)
        /\ Top.kind \notin {"running", "waiting", "waited"} => Plain(Rest)
  BY StackFacts
<1>3. CASE FinishCheck
  <2>1. /\ stack # <<>> /\ Top.kind = "checking"
        /\ UNCHANGED <<dataVars, editing, editingCount, blocks, mainQueue>>
    BY <1>3 DEF FinishCheck, Inside, Top
  <2>2. PICK r \in RetryItems : Top = Checking(r)
    BY <1>2, <2>1, FrameKinds
  <2>3. Top.retry = r
    BY <2>2, FrameFacts
  <2>4. Rest \in Seq(Frames) /\ Calm(Rest) /\ Plain(Rest)
    BY <1>2, <2>1
  <2>5. BlocksKept
    BY <2>1, BlocksSame
  <2>6. CASE editingCount > 0
    <3>1. editingQueue' = Append(editingQueue, r) /\ stack' = Rest /\ UNCHANGED ran
      BY <1>3, <2>3, <2>6 DEF FinishCheck
    <3>2. EditKept
      BY <2>1, <3>1, EditRetry
    <3>3. QED
      BY <1>1, <2>1, <2>4, <2>5, <3>1, <3>2 DEF Quiet, TypeOK, EditKept
  <2>7. CASE ~(editingCount > 0) /\ r = RetrySync
    <3>1. /\ stack' = (IF synchronized THEN <<Synchronizing(syncBlocks)>> ELSE <<>>) \o Rest
          /\ UNCHANGED ran /\ UNCHANGED editingQueue
      BY <1>3, <2>3, <2>7 DEF FinishCheck
    <3>2. stack' = Push(Synchronizing(syncBlocks), Rest) \/ stack' = Rest
      BY <2>4, <3>1 DEF Push
    <3>3. /\ Synchronizing(syncBlocks) \in Frames
          /\ Synchronizing(syncBlocks).kind = "synchronizing"
      BY <1>1, FrameMembers, FrameFacts DEF TypeOK
    <3>4. Calm(stack') /\ stack' \in Seq(Frames)
      BY <2>4, <3>2, <3>3, PushPlain DEF Calm
    <3>5. EditKept
      BY <2>1, <3>1, EditSame DEF editVars
    <3>6. QED
      BY <1>1, <2>1, <2>5, <3>1, <3>4, <3>5 DEF Quiet, TypeOK, EditKept
  <2>8. CASE ~(editingCount > 0) /\ r # RetrySync
    <3>1. PICK c \in Callbacks : r = RetryItem(c)
      BY <2>8 DEF RetryItems
    <3>2. r.callback = c
      BY <3>1 DEF RetryItem
    <3>3. /\ stack' = Push(Callback, Rest) /\ UNCHANGED editingQueue
          /\ ran' = [ran EXCEPT ![c] = @ + 1]
      BY <1>3, <2>3, <2>8, <3>2 DEF FinishCheck, Push
    <3>4. Calm(stack') /\ stack' \in Seq(Frames)
      BY <2>4, <3>3, PushPlain, FrameMembers, FrameFacts DEF Calm
    <3>5. EditKept
      BY <2>1, <3>3, EditSame DEF editVars
    <3>6. ran' \in [Callbacks \cup SyncBlocks -> Nat]
      <4>1. ran \in [Callbacks \cup SyncBlocks -> Nat]
        BY <1>1 DEF TypeOK
      <4>2. QED
        BY <3>3, <4>1
    <3>7. QED
      BY <1>1, <2>1, <2>5, <3>4, <3>5, <3>6 DEF Quiet, TypeOK, EditKept
  <2>9. QED
    BY <2>6, <2>7, <2>8
<1>4. ASSUME NEW b \in SyncBlocks, RunSyncBlock(b) PROVE Quiet /\ TypeOK'
  <2>1. /\ stack # <<>> /\ Top.kind = "synchronizing"
        /\ ran' = [ran EXCEPT ![b] = @ + 1]
        /\ stack' = <<Callback, Synchronizing(Top.left \ {b})>> \o Rest
        /\ UNCHANGED <<dataVars, editVars, blocks, mainQueue>>
    BY <1>4 DEF RunSyncBlock, Inside, Top
  <2>2. PICK S \in SUBSET SyncBlocks : Top = Synchronizing(S)
    BY <1>2, <2>1, FrameKinds
  <2>3. Top.left \ {b} \in SUBSET SyncBlocks
    BY <2>2, FrameFacts
  <2>4. /\ Synchronizing(Top.left \ {b}) \in Frames
        /\ Synchronizing(Top.left \ {b}).kind = "synchronizing"
    BY <2>3, FrameMembers, FrameFacts
  <2>5. Rest \in Seq(Frames) /\ Calm(Rest) /\ Plain(Rest)
    BY <1>2, <2>1
  <2>6. stack' = Push(Callback, Push(Synchronizing(Top.left \ {b}), Rest))
    BY <2>1, <2>5 DEF Push
  <2>7. Calm(Push(Synchronizing(Top.left \ {b}), Rest))
    BY <2>4, <2>5, PushPlain
  <2>8. Plain(Push(Synchronizing(Top.left \ {b}), Rest))
    <3>1. Head(Push(Synchronizing(Top.left \ {b}), Rest)) = Synchronizing(Top.left \ {b})
      BY <2>4, <2>5, Pushed
    <3>2. QED
      BY <2>4, <3>1 DEF Plain
  <2>9. Calm(stack') /\ stack' \in Seq(Frames)
    BY <2>6, <2>7, <2>8, PushPlain, FrameMembers, FrameFacts DEF Calm
  <2>10. ran' \in [Callbacks \cup SyncBlocks -> Nat]
    <3>1. ran \in [Callbacks \cup SyncBlocks -> Nat]
      BY <1>1 DEF TypeOK
    <3>2. QED
      BY <2>1, <3>1
  <2>11. Quiet
    BY <2>1, <2>9, QuietStack
  <2>12. QED
    BY <1>1, <2>1, <2>9, <2>10, <2>11 DEF TypeOK, editVars
<1>5. CASE RemoveSyncBlocks
  <2>1. /\ stack # <<>> /\ stack' = Rest /\ syncBlocks' = {}
        /\ UNCHANGED <<mapVars, synchronized, editVars, updateVars, viewVars,
                       traitVars, blocks, mainQueue, ran>>
    BY <1>5 DEF RemoveSyncBlocks, Inside
  <2>2. Calm(stack') /\ stack' \in Seq(Frames)
    BY <1>2, <2>1
  <2>3. Quiet
    BY <2>1, <2>2, QuietStack
  <2>4. QED
    BY <1>1, <2>1, <2>2, <2>3 DEF TypeOK, editVars
<1>6. ASSUME NEW k, MainItem(k)
      PROVE  /\ stack = <<>> /\ mainQueue # <<>> /\ mainQueue' = Tail(mainQueue)
             /\ Head(mainQueue).kind = k
             /\ Head(mainQueue) \in {RunItem, TraitsChanged} \cup RetryItems
             /\ mainQueue' \in Seq({RunItem, TraitsChanged} \cup RetryItems)
  <2>1. /\ stack = <<>> /\ mainQueue # <<>> /\ mainQueue' = Tail(mainQueue)
        /\ Head(mainQueue).kind = k
    BY <1>6 DEF MainItem
  <2>2. mainQueue \in Seq({RunItem, TraitsChanged} \cup RetryItems)
    BY <1>1 DEF TypeOK
  <2>3. QED
    BY <2>1, <2>2, Popped
<1>7. CASE RunBlocks
  <2>1. /\ MainItem("run") /\ stack' = <<Running>>
        /\ UNCHANGED <<dataVars, editVars, blocks, ran>>
    BY <1>7 DEF RunBlocks
  <2>2. stack' = Push(Running, <<>>)
    BY <2>1 DEF Push
  <2>3. Calm(stack') /\ stack' \in Seq(Frames)
    BY <2>2, EmptyCalm, PushPlain, FrameMembers, FrameFacts DEF Calm
  <2>4. Quiet
    BY <2>1, <2>3, QuietStack
  <2>5. QED
    BY <1>1, <1>6, <2>1, <2>3, <2>4 DEF TypeOK, editVars
<1>8. CASE Retry
  <2>1. /\ MainItem("retry") \/ MainItem("retrySync")
        /\ StartCheck(Head(mainQueue), <<>>)
        /\ UNCHANGED <<dataVars, editing, editingCount, blocks, ran>>
    BY <1>8 DEF Retry
  <2>2. PICK r \in RetryItems : r = Head(mainQueue)
    BY <1>6, <2>1, MainKinds
  <2>3. stack' \in Seq(Frames) /\ Calm(stack') /\ EditKept
    BY <2>1, <2>2, EmptyCalm, StartCheckQuiet
  <2>4. BlocksKept
    BY <2>1, BlocksSame
  <2>5. QED
    BY <1>1, <1>6, <2>1, <2>3, <2>4 DEF Quiet, TypeOK, EditKept
<1>9. CASE EnvironmentDidChange
  <2>1. /\ MainItem("environment")
        /\ stack' = Push(Waiting(TraitsItem, pendingMap), <<>>) \/ stack' = <<>>
        /\ UNCHANGED <<dataVars, editVars, blocks, ran>>
    BY <1>9 DEF EnvironmentDidChange, Push
  <2>2. /\ Waiting(TraitsItem, pendingMap) \in Frames
        /\ Waiting(TraitsItem, pendingMap).kind = "waiting"
    <3>1. pendingMap \in Maps
      BY <1>1 DEF TypeOK
    <3>2. QED
      BY <3>1, FrameMembers, FrameFacts
  <2>3. Calm(stack') /\ stack' \in Seq(Frames)
    BY <2>1, <2>2, EmptyCalm, PushPlain DEF Calm
  <2>4. Quiet
    BY <2>1, <2>3, QuietStack
  <2>5. QED
    BY <1>1, <1>6, <2>1, <2>3, <2>4 DEF TypeOK, editVars
<1>10. CASE DispatchRun
  <2>1. /\ editing = "pushed" /\ editing' = "dispatched"
        /\ mainQueue' = Append(mainQueue, RunItem)
        /\ UNCHANGED <<editingQueue, editingCount>> /\ UNCHANGED blocks
        /\ UNCHANGED stack /\ UNCHANGED <<dataVars, ran>>
    BY <1>10 DEF DispatchRun
  <2>2. EditKept /\ BlocksKept
    BY <2>1, EditDispatch, BlocksSame
  <2>3. mainQueue' \in Seq({RunItem, TraitsChanged} \cup RetryItems)
    BY <1>1, <2>1 DEF TypeOK
  <2>4. QED
    BY <1>1, <2>1, <2>2, <2>3 DEF Quiet, TypeOK
<1>11. CASE Uncount
  <2>1. /\ editing = "dispatched" /\ editing' = "counted"
        /\ editingCount' = editingCount - 1
        /\ UNCHANGED editingQueue /\ UNCHANGED blocks
        /\ UNCHANGED stack /\ UNCHANGED <<dataVars, mainQueue, ran>>
    BY <1>11 DEF Uncount
  <2>2. EditKept /\ BlocksKept /\ editingCount' \in Nat
    BY <2>1, EditUncount, BlocksSame
  <2>3. QED
    BY <1>1, <2>1, <2>2 DEF Quiet, TypeOK
<1>12. CASE LeaveGroup
  <2>1. /\ editing = "counted" /\ editing' = "idle"
        /\ editingQueue' = Tail(editingQueue)
        /\ UNCHANGED editingCount /\ UNCHANGED blocks
        /\ UNCHANGED stack /\ UNCHANGED <<dataVars, mainQueue, ran>>
    BY <1>12 DEF LeaveGroup
  <2>2. EditKept /\ BlocksKept
    BY <2>1, EditLeave, BlocksSame
  <2>3. QED
    BY <1>1, <2>1, <2>2 DEF Quiet, TypeOK, EditKept
<1>13. CASE BringRetryToMain
  <2>1. /\ editing = "idle" /\ editingQueue # <<>> /\ ~EditingUpdate
        /\ editingQueue' = Tail(editingQueue)
        /\ mainQueue' = Append(mainQueue, Head(editingQueue))
        /\ UNCHANGED <<editing, editingCount>> /\ UNCHANGED blocks
        /\ UNCHANGED stack /\ UNCHANGED <<dataVars, ran>>
    BY <1>13 DEF BringRetryToMain, EditingItem
  <2>2. editingQueue \in Seq(UpdateItems \cup RetryItems)
    BY <1>1 DEF TypeOK
  <2>3. Head(editingQueue) \in UpdateItems \cup RetryItems
    BY <2>1, <2>2, Popped
  <2>4. Head(editingQueue) \in RetryItems
    BY <2>1, <2>3, EditKinds DEF EditingUpdate, EditingItem
  <2>5. EditKept /\ BlocksKept
    BY <2>1, <2>4, EditBring, BlocksSame
  <2>6. mainQueue' \in Seq({RunItem, TraitsChanged} \cup RetryItems)
    BY <1>1, <2>1, <2>4 DEF TypeOK
  <2>7. QED
    BY <1>1, <2>1, <2>5, <2>6 DEF Quiet, TypeOK, EditKept
<1>14. QED
  BY <1>3, <1>4, <1>5, <1>7, <1>8, <1>9, <1>10, <1>11, <1>12, <1>13

-----------------------------------------------------------------------------
(* Where one update w goes. *)

EditGains(w) ==
  /\ editingQueue' \in Seq(UpdateItems \cup RetryItems) /\ EditingOK'
  /\ \A u \in Updates :
       /\ Queued(u)' <=> Queued(u) \/ u = w
       /\ Fresh(u)' <=> Fresh(u) \/ u = w
       /\ \A v \in Updates : Follows(UpdateItem(u), UpdateItem(v), editingQueue)' =>
            Follows(UpdateItem(u), UpdateItem(v), editingQueue) \/ (Queued(u) /\ v = w)

EditPushes(w) ==
  /\ UNCHANGED editingQueue /\ EditingOK' /\ Fresh(w)
  /\ \A u \in Updates :
       /\ Fresh(u)' <=> Fresh(u) /\ u # w
       /\ Fresh(u)' => Follows(UpdateItem(w), UpdateItem(u), editingQueue)

BlocksGain(w) ==
  /\ blocks' \in Seq(UpdateItems \cup {NoopItem, RelayoutItem, TraitsItem})
  /\ \A u \in Updates :
       /\ Blocked(u)' <=> Blocked(u) \/ u = w
       /\ \A v \in Updates : Follows(UpdateItem(u), UpdateItem(v), blocks)' =>
            Follows(UpdateItem(u), UpdateItem(v), blocks) \/ (Blocked(u) /\ v = w)

BlocksLose(w) ==
  /\ blocks' \in Seq(UpdateItems \cup {NoopItem, RelayoutItem, TraitsItem})
  /\ Blocked(w)
  /\ \A u \in Updates :
       /\ Blocked(u)' <=> Blocked(u) /\ u # w
       /\ Blocked(u)' => Follows(UpdateItem(w), UpdateItem(u), blocks)
       /\ \A v \in Updates : Follows(UpdateItem(u), UpdateItem(v), blocks)' =>
                               Follows(UpdateItem(u), UpdateItem(v), blocks)

HeldGains(w) ==
  /\ deferred' \in Seq(Updates)
  /\ \A u \in Updates :
       /\ Held(u)' <=> Held(u) \/ u = w
       /\ \A v \in Updates : Follows(u, v, deferred)' =>
                               Follows(u, v, deferred) \/ (Held(u) /\ v = w)

HeldLoses(w) ==
  /\ deferred' \in Seq(Updates)
  /\ Held(w)
  /\ \A u \in Updates :
       /\ Held(u)' <=> Held(u) /\ u # w
       /\ Held(u)' => Follows(w, u, deferred)
       /\ \A v \in Updates : Follows(u, v, deferred)' => Follows(u, v, deferred)

LEMMA EditAppends ==
  ASSUME PipelineOK, NEW w \in Updates, ~Queued(w),
         editingQueue' = Append(editingQueue, UpdateItem(w)),
         UNCHANGED editing, editingCount' = editingCount + 1
  PROVE  EditGains(w)
<1> DEFINE r == UpdateItem(w)
<1>1. editingQueue \in Seq(EditItems) /\ EditingOK /\ r \in EditItems
  BY DEF PipelineOK, TypeOK, EditItems, UpdateItems
<1>2. /\ editingQueue' \in Seq(EditItems) /\ editingQueue' # <<>>
      /\ Items(editingQueue') = Items(editingQueue) \cup {r}
      /\ \A x, y : Follows(x, y, editingQueue') <=>
           Follows(x, y, editingQueue) \/ (x \in Items(editingQueue) /\ y = r)
      /\ editingQueue # <<>> => /\ Head(editingQueue') = Head(editingQueue)
                                /\ Tail(editingQueue') = Append(Tail(editingQueue), r)
  BY <1>1, Appended
<1>3. \A u \in Updates : UpdateItem(u) = r <=> u = w
  BY ItemFacts
<1> HIDE DEF r
<1>4. editing # "idle" => Items(Tail(editingQueue')) = Items(Tail(editingQueue)) \cup {r}
  <2>1. SUFFICES ASSUME editing # "idle"
                 PROVE Items(Tail(editingQueue')) = Items(Tail(editingQueue)) \cup {r}
    OBVIOUS
  <2>2. editingQueue # <<>> /\ Tail(editingQueue) \in Seq(EditItems)
    BY <2>1, EditedUpdate
  <2>3. Tail(editingQueue') = Append(Tail(editingQueue), r)
    BY <1>2, <2>2
  <2>4. PICK q \in Seq(EditItems) : q = Tail(editingQueue)
    BY <2>2
  <2>5. Items(Append(q, r)) = Items(q) \cup {r}
    BY <1>1, Appended
  <2>6. QED
    BY <2>3, <2>4, <2>5
<1>5. UNCHANGED editing
  OBVIOUS
<1>6. /\ Items(FreshQueue') = Items(FreshQueue) \cup {r}
      /\ Items(CountedQueue') = Items(CountedQueue) \cup {r}
  <2>1. CASE editing = "idle"
    BY <1>2, <1>5, <2>1 DEF FreshQueue, CountedQueue
  <2>2. CASE editing # "idle"
    BY <1>2, <1>4, <1>5, <2>2 DEF FreshQueue, CountedQueue
  <2>3. QED
    BY <2>1, <2>2
<1>7. r \notin Items(CountedQueue)
  <2>1. r \notin Items(editingQueue)
    BY DEF Queued, r
  <2>2. CASE editing = "counted"
    <3>1. Items(Tail(editingQueue)) \subseteq Items(editingQueue)
      BY <1>1, <2>2, EditedUpdate, Popped
    <3>2. QED
      BY <2>1, <2>2, <3>1 DEF CountedQueue
  <2>3. CASE editing # "counted"
    BY <2>1, <2>3 DEF CountedQueue
  <2>4. QED
    BY <2>2, <2>3
<1>8. Counted' = Counted \cup {w} /\ w \notin Counted
  BY <1>3, <1>6, <1>7 DEF Counted
<1>9. EditingOK'
  <2>1. IsFiniteSet(Counted) /\ editingCount = Cardinality(Counted)
    BY <1>1 DEF EditingOK
  <2>2. /\ IsFiniteSet(Counted \cup {w})
        /\ Cardinality(Counted \cup {w}) = Cardinality(Counted) + 1
    BY <1>8, <2>1, FS_AddElement
  <2>3. IsFiniteSet(Counted') /\ editingCount' = Cardinality(Counted')
    BY <1>8, <2>1, <2>2
  <2>4. editing' # "idle" => editingQueue' # <<>> /\ Head(editingQueue').kind = "update"
    BY <1>1, <1>2, <1>5 DEF EditingOK
  <2>5. QED
    BY <2>3, <2>4 DEF EditingOK
<1>10. \A u \in Updates : /\ Queued(u)' <=> Queued(u) \/ u = w
                          /\ Fresh(u)' <=> Fresh(u) \/ u = w
  BY <1>2, <1>3, <1>6 DEF Queued, Fresh
<1>11. \A u, v \in Updates : Follows(UpdateItem(u), UpdateItem(v), editingQueue)' =>
         Follows(UpdateItem(u), UpdateItem(v), editingQueue) \/ (Queued(u) /\ v = w)
  BY <1>2, <1>3 DEF Queued
<1>12. QED
  BY <1>2, <1>9, <1>10, <1>11 DEF EditGains, EditItems

LEMMA EditPushed ==
  ASSUME PipelineOK, NEW w \in Updates, editing = "idle", editing' = "pushed",
         editingQueue # <<>>, Head(editingQueue) = UpdateItem(w),
         UNCHANGED <<editingQueue, editingCount>>
  PROVE  EditPushes(w)
<1>1. editingQueue \in Seq(EditItems) /\ EditingOK
  BY DEF PipelineOK, TypeOK, EditItems
<1>2. /\ Items(editingQueue) = Items(Tail(editingQueue)) \cup {UpdateItem(w)}
      /\ \A x, y : Follows(x, y, editingQueue) <=>
           \/ Follows(x, y, Tail(editingQueue))
           \/ x = UpdateItem(w) /\ y \in Items(Tail(editingQueue))
  BY <1>1, Popped
<1>3. UpdateItem(w) \notin Items(Tail(editingQueue))
  <2>1. ~Follows(UpdateItem(w), UpdateItem(w), editingQueue)
    BY DEF PipelineOK, TokensOK, OnePlace
  <2>2. QED
    BY <1>2, <2>1
<1>4. FreshQueue = editingQueue /\ FreshQueue' = Tail(editingQueue)
  BY DEF FreshQueue
<1>5. CountedQueue' = CountedQueue
  BY DEF CountedQueue
<1>6. Counted' = Counted
  BY <1>5 DEF Counted
<1>7. Head(editingQueue).kind = "update"
  BY ItemFacts
<1>8. EditingOK'
  BY <1>1, <1>6, <1>7 DEF EditingOK
<1>9. \A u \in Updates : UpdateItem(u) = UpdateItem(w) <=> u = w
  BY ItemFacts
<1>10. QED
  BY <1>2, <1>3, <1>4, <1>8, <1>9 DEF EditPushes, Fresh

LEMMA BlocksAppend ==
  ASSUME PipelineOK, NEW w \in Updates, blocks' = Append(blocks, UpdateItem(w))
  PROVE  BlocksGain(w)
<1>1. blocks \in Seq(BlockItems) /\ UpdateItem(w) \in BlockItems
  BY DEF PipelineOK, TypeOK, BlockItems, UpdateItems
<1>2. /\ blocks' \in Seq(BlockItems)
      /\ Items(blocks') = Items(blocks) \cup {UpdateItem(w)}
      /\ \A x, y : Follows(x, y, blocks') <=>
           Follows(x, y, blocks) \/ (x \in Items(blocks) /\ y = UpdateItem(w))
  BY <1>1, Appended
<1>3. \A u \in Updates : UpdateItem(u) = UpdateItem(w) <=> u = w
  BY ItemFacts
<1>4. QED
  BY <1>2, <1>3 DEF BlocksGain, Blocked, BlockItems

LEMMA BlocksTail ==
  ASSUME PipelineOK, NextBlock("update")
  PROVE  \E w \in Updates : Head(blocks) = UpdateItem(w) /\ BlocksLose(w)
<1>1. /\ blocks \in Seq(BlockItems) /\ blocks # <<>> /\ Head(blocks).kind = "update"
      /\ blocks' = Tail(blocks)
  BY DEF PipelineOK, TypeOK, BlockItems, NextBlock
<1>2. /\ Head(blocks) \in BlockItems /\ Tail(blocks) \in Seq(BlockItems)
      /\ Items(blocks) = Items(Tail(blocks)) \cup {Head(blocks)}
      /\ \A x, y : Follows(x, y, blocks) <=>
           Follows(x, y, Tail(blocks)) \/ (x = Head(blocks) /\ y \in Items(Tail(blocks)))
  BY <1>1, Popped
<1>3. PICK w \in Updates : Head(blocks) = UpdateItem(w)
  BY <1>1, <1>2, BlockKinds DEF BlockItems
<1>4. UpdateItem(w) \notin Items(Tail(blocks))
  <2>1. ~Follows(UpdateItem(w), UpdateItem(w), blocks)
    BY DEF PipelineOK, TokensOK, OnePlace
  <2>2. QED
    BY <1>2, <1>3, <2>1
<1>5. \A u \in Updates : UpdateItem(u) = UpdateItem(w) <=> u = w
  BY ItemFacts
<1>6. BlocksLose(w)
  BY <1>1, <1>2, <1>3, <1>4, <1>5 DEF BlocksLose, Blocked, BlockItems
<1>7. QED
  BY <1>3, <1>6

LEMMA HeldAppend ==
  ASSUME PipelineOK, NEW w \in Updates, deferred' = Append(deferred, w)
  PROVE  HeldGains(w)
<1>1. deferred \in Seq(Updates)
  BY DEF PipelineOK, TypeOK
<1>2. /\ deferred' \in Seq(Updates)
      /\ Items(deferred') = Items(deferred) \cup {w}
      /\ \A x, y : Follows(x, y, deferred') <=>
           Follows(x, y, deferred) \/ (x \in Items(deferred) /\ y = w)
  BY <1>1, Appended
<1>3. QED
  BY <1>2 DEF HeldGains, Held

LEMMA HeldTail ==
  ASSUME PipelineOK, deferred # <<>>, deferred' = Tail(deferred)
  PROVE  Head(deferred) \in Updates /\ HeldLoses(Head(deferred))
<1>1. deferred \in Seq(Updates)
  BY DEF PipelineOK, TypeOK
<1>2. PICK w : w = Head(deferred)
  OBVIOUS
<1>3. /\ w \in Updates /\ Tail(deferred) \in Seq(Updates)
      /\ Items(deferred) = Items(Tail(deferred)) \cup {w}
      /\ \A x, y : Follows(x, y, deferred) <=>
           Follows(x, y, Tail(deferred)) \/ (x = w /\ y \in Items(Tail(deferred)))
  BY <1>1, <1>2, Popped
<1>4. w \notin Items(Tail(deferred))
  <2>1. ~Follows(w, w, deferred)
    BY <1>3 DEF PipelineOK, TokensOK, OnePlace
  <2>2. QED
    BY <1>3, <2>1
<1>5. HeldLoses(w)
  BY <1>3, <1>4 DEF HeldLoses, Held
<1>6. QED
  BY <1>2, <1>3, <1>5

LEMMA Called ==
  ASSUME NEW S, NEW s \in Seq(S), s # <<>>, NEW x \in Items(Tail(s))
  PROVE  \E g \in S : Next2(g, x, s)
<1>1. PICK i \in 1 .. Len(Tail(s)) : x = Tail(s)[i]
  BY DEF Items
<1>2. /\ i \in 1 .. Len(s) /\ i + 1 \in 1 .. Len(s) /\ s[i + 1] = x /\ s[i] \in S
  BY <1>1
<1>3. DOMAIN s = 1 .. Len(s)
  OBVIOUS
<1>4. Next2(s[i], x, s)
  BY <1>2, <1>3 DEF Next2
<1>5. QED
  BY <1>2, <1>4

LEMMA OnlyTop ==
  ASSUME PipelineOK, stack # <<>>
  PROVE  \A f \in Items(Rest) : f.kind \notin {"submitting", "waiting"}
<1>1. TAKE f \in Items(Rest)
<1>2. stack \in Seq(Frames) /\ StackOK(stack) /\ Rest \in Seq(Frames)
  BY StackFacts
<1>3. PICK g \in Frames : Next2(g, f, stack)
  BY <1>1, <1>2, Called DEF Rest
<1>4. f \in Frames
  BY <1>1, <1>2, InItems
<1>5. Below(g, f)
  BY <1>2, <1>3, <1>4 DEF StackOK
<1>6. QED
  BY <1>5 DEF Below

-----------------------------------------------------------------------------
(* The steps that move an update. *)

\* The parts of PipelineOK that follow from what becomes of every update.
LEMMA PipelineParts ==
  ASSUME TypeOK', StackOK(stack'), EditingOK',
         \A u \in Updates : OnePlace(u)' /\ StatusOK(u)'
  PROVE  PipelineOK'
BY DEF PipelineOK, TokensOK

LEMMA SubmitStep ==
  ASSUME PipelineOK, NEW w \in Updates, NEW reload \in BOOLEAN, Submit(w, reload)
  PROVE  PipelineOK' /\ Kept
<1> USE DEF viewVars, mapVars, traitVars
<1>1. stack \in Seq(Frames) /\ StackOK(stack) /\ (ClientRuns => Plain(stack)) /\ TypeOK
  BY StackFacts DEF PipelineOK
<1>2. /\ status[w] = "none" /\ synchronized' = FALSE
      /\ status' = [status EXCEPT ![w] = "submitted"]
      /\ isReload' = [isReload EXCEPT ![w] = reload]
      /\ initialReload' = (initialReload \/ reload)
      /\ stack' = Push(Submitting(w), stack) /\ ClientRuns
      /\ UNCHANGED editVars /\ UNCHANGED blocks
      /\ UNCHANGED <<mapVars, syncBlocks, mapOf, viewVars, traitVars, mainQueue, ran>>
  BY DEF Submit, Push
<1>3. EditKept /\ BlocksKept
  BY <1>2, EditSame, BlocksSame
<1>4. Submitting(w) \in Frames /\ Submitting(w).kind = "submitting"
  BY FrameMembers, FrameFacts
<1>5. /\ stack' \in Seq(Frames)
      /\ Items(stack') = Items(stack) \cup {Submitting(w)}
      /\ \A x, y : Follows(x, y, stack') <=>
           Follows(x, y, stack) \/ (x = Submitting(w) /\ y \in Items(stack))
  BY <1>1, <1>2, <1>4, Pushed
<1>6. StackOK(stack')
  BY <1>1, <1>2, <1>4, PlainBelow, PushedStackOK
<1>7. /\ status' \in [Updates -> {"none", "submitted", "latched", "deployed", "completed"}]
      /\ isReload' \in [Updates -> BOOLEAN] /\ initialReload' \in BOOLEAN
  <2>1. /\ status \in [Updates -> {"none", "submitted", "latched", "deployed", "completed"}]
        /\ isReload \in [Updates -> BOOLEAN] /\ initialReload \in BOOLEAN
    BY <1>1 DEF TypeOK
  <2>2. QED
    BY <1>2, <2>1
<1>8. TypeOK'
  BY <1>1, <1>2, <1>3, <1>5, <1>7 DEF TypeOK, EditKept, BlocksKept, editVars
<1>9. ASSUME NEW u \in Updates PROVE OnePlace(u)' /\ StatusOK(u)'
  <2>1. OnePlace(u) /\ StatusOK(u)
    BY DEF PipelineOK, TokensOK
  <2>2. /\ Held(u)' <=> Held(u)
        /\ Blocked(u)' <=> Blocked(u)
        /\ Fresh(u)' <=> Fresh(u)
        /\ Queued(u)' => Queued(u)
        /\ mapOf' = mapOf /\ animating' = animating /\ deferred' = deferred
    BY <1>2, <1>3 DEF Held, EditKept, BlocksKept
  <2>3. /\ Completion(u) # Submitting(w)
        /\ Submitting(u) = Submitting(w) => u = w
    BY FrameFacts
  <2>4. /\ Completion(u) \in Items(stack') <=> Completion(u) \in Items(stack)
        /\ Submitting(u) \in Items(stack') => Submitting(u) \in Items(stack) \/ u = w
        /\ Follows(Completion(u), Completion(u), stack') =>
             Follows(Completion(u), Completion(u), stack)
    BY <1>5, <2>3
  <2>5. OnePlace(u)'
    BY <1>3, <2>1, <2>2, <2>4 DEF OnePlace, EditKept, BlocksKept
  <2>6. Way(u)' <=> Way(u)
    BY <2>2 DEF Way
  <2>7. status' = [status EXCEPT ![w] = "submitted"] /\ status[w] = "none"
        /\ DOMAIN status = Updates
    BY <1>1, <1>2 DEF TypeOK
  <2>8. StatusOK(u)'
    <3>1. CASE u = w
      BY <2>1, <2>2, <2>4, <2>6, <2>7, <3>1 DEF StatusOK
    <3>2. CASE u # w
      BY <2>1, <2>2, <2>4, <2>6, <2>7, <3>2 DEF StatusOK
    <3>3. QED
      BY <3>1, <3>2
  <2>9. QED
    BY <2>5, <2>8
<1>10. PipelineOK'
  BY <1>3, <1>6, <1>8, <1>9, PipelineParts DEF EditKept
<1>11. QED
  BY <1>2, <1>3, <1>10 DEF Kept

\* The completion handler runs on top of the stack, and nowhere else.
LEMMA CompletedOnce ==
  ASSUME PipelineOK, Inside("completion")
  PROVE  \E w \in Updates : /\ Top = Completion(w) /\ Top.update = w
                            /\ Completion(w) \notin Items(Rest)
<1>1. stack \in Seq(Frames) /\ stack # <<>> /\ Top \in Frames /\ Top.kind = "completion"
  BY StackFacts DEF Inside, Top
<1>2. PICK w \in Updates : Top = Completion(w)
  BY <1>1, FrameKinds
<1>3. ~Follows(Completion(w), Completion(w), stack)
  BY DEF PipelineOK, TokensOK, OnePlace
<1>4. \A x, y : (x = Top /\ y \in Items(Rest)) => Follows(x, y, stack)
  BY <1>1, Popped DEF Top, Rest
<1>5. QED
  BY <1>2, <1>3, <1>4, FrameFacts

LEMMA CompletionStep ==
  ASSUME PipelineOK, CompletionReturns
  PROVE  PipelineOK' /\ Kept
<1> USE DEF viewVars, mapVars, traitVars
<1>1. stack \in Seq(Frames) /\ StackOK(stack) /\ TypeOK
  BY StackFacts DEF PipelineOK
<1>2. Inside("completion") /\ stack # <<>> /\ Top.kind = "completion"
  BY DEF CompletionReturns, Inside, Top
<1>3. PICK w \in Updates : /\ Top = Completion(w) /\ Top.update = w
                           /\ Completion(w) \notin Items(Rest)
  BY <1>2, CompletedOnce
<1>4. /\ status' = [status EXCEPT ![w] = "completed"] /\ synchronized' = TRUE
      /\ StartCheck(RetrySync, Rest)
      /\ UNCHANGED blocks /\ UNCHANGED <<editing, editingCount>>
      /\ UNCHANGED <<mapVars, syncBlocks, initialReload, mapOf, isReload, viewVars,
                     traitVars, mainQueue, ran>>
  BY <1>3 DEF CompletionReturns
<1>5. RetrySync \in RetryItems
  BY DEF RetryItems
<1>6. Rest \in Seq(Frames) /\ Calm(Rest) /\ Plain(Rest) /\ Items(stack) = Items(Rest) \cup {Top}
  BY <1>2, StackFacts
<1>7. /\ stack' \in Seq(Frames) /\ Calm(stack') /\ EditKept
      /\ stack' = Rest \/ stack' = Push(Checking(RetrySync), Rest)
  BY <1>4, <1>5, <1>6, StartCheckQuiet
<1>8. BlocksKept
  BY <1>4, BlocksSame
<1>9. Completion(w) \notin Items(stack')
  <2>1. Checking(RetrySync) \in Frames /\ Completion(w) # Checking(RetrySync)
    BY <1>5, FrameMembers, FrameFacts
  <2>2. Items(Push(Checking(RetrySync), Rest)) = Items(Rest) \cup {Checking(RetrySync)}
    BY <1>6, <2>1, Pushed
  <2>3. QED
    BY <1>3, <1>7, <2>1, <2>2
<1>10. status' \in [Updates -> {"none", "submitted", "latched", "deployed", "completed"}]
  <2>1. status \in [Updates -> {"none", "submitted", "latched", "deployed", "completed"}]
    BY <1>1 DEF TypeOK
  <2>2. QED
    BY <1>4, <2>1
<1>11. TypeOK'
  BY <1>1, <1>4, <1>7, <1>8, <1>10 DEF TypeOK, EditKept, BlocksKept
<1>12. Completion(w) \in Items(stack)
  BY <1>3, <1>6
<1>13. ASSUME NEW u \in Updates PROVE OnePlace(u)' /\ StatusOK(u)'
  <2>1. OnePlace(u) /\ StatusOK(u)
    BY DEF PipelineOK, TokensOK
  <2>2. /\ Held(u)' <=> Held(u)
        /\ Blocked(u)' <=> Blocked(u)
        /\ Fresh(u)' <=> Fresh(u)
        /\ Queued(u)' => Queued(u)
        /\ mapOf' = mapOf /\ animating' = animating /\ deferred' = deferred
    BY <1>4, <1>7, <1>8 DEF Held, EditKept, BlocksKept
  <2>3. /\ Completion(u) \in Items(stack') => Completion(u) \in Items(stack) /\ u # w
        /\ Submitting(u) \in Items(stack') => Submitting(u) \in Items(stack)
        /\ Follows(Completion(u), Completion(u), stack') =>
             Follows(Completion(u), Completion(u), stack)
    BY <1>7, <1>9 DEF Calm
  <2>4. OnePlace(u)'
    BY <1>7, <1>8, <2>1, <2>2, <2>3 DEF OnePlace, EditKept, BlocksKept
  <2>5. Way(u)' <=> Way(u)
    BY <2>2 DEF Way
  <2>6. status' = [status EXCEPT ![w] = "completed"] /\ DOMAIN status = Updates
    BY <1>1, <1>4 DEF TypeOK
  <2>7. StatusOK(u)'
    <3>1. CASE u = w
      <4>1. status'[u] = "completed"
        BY <2>6, <3>1
      <4>2. QED
        BY <1>12, <2>1, <2>2, <2>3, <2>5, <3>1, <4>1 DEF StatusOK
    <3>2. CASE u # w
      BY <2>1, <2>2, <2>3, <2>5, <2>6, <3>2 DEF StatusOK
    <3>3. QED
      BY <3>1, <3>2
  <2>8. QED
    BY <2>4, <2>7
<1>14. PipelineOK'
  BY <1>7, <1>11, <1>13, PipelineParts DEF EditKept, Calm
<1>15. QED
  BY <1>4, <1>7, <1>8, <1>14 DEF Kept

LEMMA AnimationsStep ==
  ASSUME PipelineOK, NEW w \in Updates, AnimationsEnd(w)
  PROVE  PipelineOK' /\ Kept
<1> USE DEF viewVars, mapVars, traitVars, syncVars, updateVars
<1>1. stack \in Seq(Frames) /\ StackOK(stack) /\ TypeOK
  BY StackFacts DEF PipelineOK
<1>2. /\ stack = <<>> /\ w \in animating /\ animating' = animating \ {w}
      /\ stack' = Push(Completion(w), <<>>)
      /\ UNCHANGED editVars /\ UNCHANGED blocks
      /\ UNCHANGED <<mapVars, syncVars, updateVars, deferred, traitVars, mainQueue, ran>>
  BY DEF AnimationsEnd, Push
<1>3. EditKept /\ BlocksKept
  BY <1>2, EditSame, BlocksSame
<1>4. Completion(w) \in Frames /\ <<>> \in Seq(Frames) /\ StackOK(<<>>)
  BY FrameMembers, EmptyCalm DEF Calm
<1>5. /\ stack' \in Seq(Frames)
      /\ Items(stack') = {Completion(w)}
      /\ \A x, y : ~Follows(x, y, stack')
  <2>1. PICK e \in Seq(Frames) : e = <<>>
    BY <1>4
  <2>2. /\ Push(Completion(w), e) \in Seq(Frames)
        /\ Items(Push(Completion(w), e)) = Items(e) \cup {Completion(w)}
        /\ \A x, y : Follows(x, y, Push(Completion(w), e)) <=>
             Follows(x, y, e) \/ (x = Completion(w) /\ y \in Items(e))
    BY <1>4, Pushed
  <2>3. Items(e) = {} /\ \A x, y : ~Follows(x, y, e)
    BY <2>1, Empty
  <2>4. QED
    BY <1>2, <2>1, <2>2, <2>3
<1>6. StackOK(stack')
  BY <1>2, <1>4, PushedStackOK
<1>7. TypeOK'
  BY <1>1, <1>2, <1>3, <1>5 DEF TypeOK, EditKept, BlocksKept, editVars
<1>8. ASSUME NEW u \in Updates PROVE OnePlace(u)' /\ StatusOK(u)'
  <2>1. OnePlace(u) /\ StatusOK(u)
    BY DEF PipelineOK, TokensOK
  <2>2. /\ Held(u)' <=> Held(u)
        /\ Blocked(u)' <=> Blocked(u)
        /\ Fresh(u)' <=> Fresh(u)
        /\ Queued(u)' => Queued(u)
        /\ mapOf' = mapOf /\ deferred' = deferred /\ status' = status
    BY <1>2, <1>3 DEF Held, EditKept, BlocksKept
  <2>3. /\ Completion(u) \in Items(stack') => u = w
        /\ Submitting(u) \notin Items(stack')
        /\ ~Follows(Completion(u), Completion(u), stack')
    BY <1>5, FrameFacts
  <2>4. OnePlace(u)'
    BY <1>3, <2>1, <2>2, <2>3 DEF OnePlace, EditKept, BlocksKept
  <2>5. Way(u)' <=> Way(u)
    BY <2>2 DEF Way
  <2>6. StatusOK(u)'
    BY <1>2, <2>1, <2>2, <2>3, <2>5 DEF StatusOK
  <2>7. QED
    BY <2>4, <2>6
<1>9. PipelineOK'
  BY <1>3, <1>6, <1>7, <1>8, PipelineParts DEF EditKept
<1>10. QED
  BY <1>2, <1>3, <1>9 DEF Kept

LEMMA ConsumeStep ==
  ASSUME PipelineOK, ConsumeUpdate
  PROVE  PipelineOK' /\ \E w \in Updates : /\ HeldLoses(w) /\ visibleMap' = mapOf[w]
                                           /\ UNCHANGED <<pendingMap, mapOf, stack>>
<1> USE DEF mapVars, traitVars, syncVars
<1>1. stack \in Seq(Frames) /\ StackOK(stack) /\ TypeOK
  BY StackFacts DEF PipelineOK
<1>2. PICK w : w = Head(deferred)
  OBVIOUS
<1>3. /\ deferred # <<>> /\ visibleMap' = mapOf[w]
      /\ status' = [status EXCEPT ![w] = "deployed"]
      /\ animating' = animating \cup {w} /\ deferred' = Tail(deferred)
      /\ UNCHANGED editVars /\ UNCHANGED blocks /\ UNCHANGED stack
      /\ UNCHANGED <<pendingMap, syncVars, initialReload, mapOf, isReload, traitVars,
                     mainQueue, ran>>
  BY <1>2 DEF ConsumeUpdate
<1>4. w \in Updates /\ HeldLoses(w)
  BY <1>2, <1>3, HeldTail
<1>5. EditKept /\ BlocksKept
  BY <1>3, EditSame, BlocksSame
<1>6. /\ status' \in [Updates -> {"none", "submitted", "latched", "deployed", "completed"}]
      /\ visibleMap' \in Maps /\ animating' \in SUBSET Updates /\ deferred' \in Seq(Updates)
  <2>1. /\ status \in [Updates -> {"none", "submitted", "latched", "deployed", "completed"}]
        /\ mapOf \in [Updates -> Maps] /\ animating \in SUBSET Updates
    BY <1>1 DEF TypeOK
  <2>2. QED
    BY <1>3, <1>4, <2>1 DEF HeldLoses
<1>7. TypeOK'
  BY <1>1, <1>3, <1>5, <1>6 DEF TypeOK, EditKept, BlocksKept, editVars
<1>8. status[w] = "latched"
  BY <1>4 DEF PipelineOK, TokensOK, StatusOK, Way, HeldLoses
<1>9. ASSUME NEW u \in Updates PROVE OnePlace(u)' /\ StatusOK(u)'
  <2>1. OnePlace(u) /\ StatusOK(u)
    BY DEF PipelineOK, TokensOK
  <2>2. /\ Held(u)' <=> Held(u) /\ u # w
        /\ Follows(u, u, deferred)' => Follows(u, u, deferred)
        /\ Held(w)
    BY <1>4 DEF HeldLoses
  <2>3. /\ Blocked(u)' <=> Blocked(u)
        /\ Fresh(u)' <=> Fresh(u)
        /\ Queued(u)' => Queued(u)
        /\ mapOf' = mapOf /\ animating' = animating \cup {w} /\ stack' = stack
    BY <1>3, <1>5 DEF EditKept, BlocksKept
  <2>4. OnePlace(u)'
    BY <1>5, <2>1, <2>2, <2>3 DEF OnePlace, EditKept, BlocksKept
  <2>5. status' = [status EXCEPT ![w] = "deployed"] /\ DOMAIN status = Updates
    BY <1>1, <1>3 DEF TypeOK
  <2>6. StatusOK(u)'
    <3>1. CASE u = w
      <4>1. ~Way(u)'
        BY <2>1, <2>2, <2>3, <3>1 DEF Way, OnePlace
      <4>2. status'[u] = "deployed"
        BY <2>5, <3>1
      <4>3. QED
        BY <1>8, <2>1, <2>3, <3>1, <4>1, <4>2 DEF StatusOK
    <3>2. CASE u # w
      <4>1. Way(u)' <=> Way(u)
        BY <2>2, <2>3, <3>2 DEF Way
      <4>2. QED
        BY <2>1, <2>3, <2>5, <3>2, <4>1 DEF StatusOK
    <3>3. QED
      BY <3>1, <3>2
  <2>7. QED
    BY <2>4, <2>6
<1>10. StackOK(stack')
  BY <1>1, <1>3
<1>11. PipelineOK'
  BY <1>5, <1>7, <1>9, <1>10, PipelineParts DEF EditKept
<1>12. QED
  BY <1>3, <1>4, <1>11

\* What the block of an update does when the view takes the update at once.
LEMMA DeliverStep ==
  ASSUME PipelineOK, DeliverAtOnce \/ DeliverAnimated
  PROVE  PipelineOK' /\ \E w \in Updates : /\ BlocksLose(w) /\ visibleMap' = mapOf[w]
                                           /\ deferred = <<>>
                                           /\ UNCHANGED <<pendingMap, mapOf, deferred>>
<1> USE DEF mapVars, traitVars, syncVars, viewVars
<1>1. stack \in Seq(Frames) /\ StackOK(stack) /\ TypeOK
  BY StackFacts DEF PipelineOK
<1>2. NextBlock("update")
  BY DEF DeliverAtOnce, DeliverAnimated
<1>3. PICK w \in Updates : Head(blocks) = UpdateItem(w) /\ BlocksLose(w)
  BY <1>2, BlocksTail
<1>4. Head(blocks).update = w
  BY <1>3, ItemFacts
<1>5. /\ deferred = <<>> /\ visibleMap' = mapOf[w]
      /\ status' = [status EXCEPT ![w] = "deployed"]
      /\ \/ stack' = Push(Completion(w), stack) /\ animating' = animating
         \/ stack' = stack /\ animating' = animating \cup {w}
      /\ UNCHANGED editVars
      /\ UNCHANGED <<pendingMap, syncVars, initialReload, mapOf, isReload, deferred,
                     traitVars, mainQueue, ran>>
  BY <1>4 DEF DeliverAtOnce, DeliverAnimated, Push
<1>6. EditKept
  BY <1>5, EditSame
<1>7. Inside("running")
  BY <1>2 DEF NextBlock
<1>8. /\ Completion(w) \in Frames /\ Completion(w).kind = "completion" /\ Plain(stack)
  BY <1>7, FrameMembers, FrameFacts DEF Plain, Inside
<1>9. /\ Push(Completion(w), stack) \in Seq(Frames)
      /\ Items(Push(Completion(w), stack)) = Items(stack) \cup {Completion(w)}
      /\ \A x, y : Follows(x, y, Push(Completion(w), stack)) <=>
           Follows(x, y, stack) \/ (x = Completion(w) /\ y \in Items(stack))
      /\ StackOK(Push(Completion(w), stack))
  <2>1. StackOK(Push(Completion(w), stack))
    BY <1>1, <1>8, PlainBelow, PushedStackOK
  <2>2. QED
    BY <1>1, <1>8, <2>1, Pushed
<1>10. stack' \in Seq(Frames) /\ StackOK(stack')
  BY <1>1, <1>5, <1>9
<1>11. /\ status' \in [Updates -> {"none", "submitted", "latched", "deployed", "completed"}]
       /\ visibleMap' \in Maps /\ animating' \in SUBSET Updates
  <2>1. /\ status \in [Updates -> {"none", "submitted", "latched", "deployed", "completed"}]
        /\ mapOf \in [Updates -> Maps] /\ animating \in SUBSET Updates
    BY <1>1 DEF TypeOK
  <2>2. QED
    BY <1>3, <1>5, <2>1
<1>12. TypeOK'
  BY <1>1, <1>3, <1>5, <1>6, <1>10, <1>11 DEF TypeOK, EditKept, BlocksLose, editVars
<1>13. ASSUME NEW u \in Updates PROVE OnePlace(u) /\ StatusOK(u)
  BY DEF PipelineOK, TokensOK
<1>14. /\ status[w] = "latched" /\ ~Held(w) /\ ~Fresh(w) /\ w \notin animating
       /\ Completion(w) \notin Items(stack) /\ Submitting(w) \notin Items(stack)
  BY <1>3, <1>13 DEF BlocksLose, StatusOK, OnePlace, Way
<1>15. ASSUME NEW u \in Updates PROVE OnePlace(u)' /\ StatusOK(u)'
  <2>1. OnePlace(u) /\ StatusOK(u)
    BY <1>13
  <2>2. /\ Blocked(u)' <=> Blocked(u) /\ u # w
        /\ Follows(UpdateItem(u), UpdateItem(u), blocks)' =>
             Follows(UpdateItem(u), UpdateItem(u), blocks)
    BY <1>3 DEF BlocksLose
  <2>3. /\ Held(u)' <=> Held(u)
        /\ Fresh(u)' <=> Fresh(u)
        /\ Queued(u)' => Queued(u)
        /\ mapOf' = mapOf /\ deferred' = deferred
    BY <1>5, <1>6 DEF EditKept, Held
  <2>4. /\ Completion(u) = Completion(w) => u = w
        /\ Submitting(u) # Completion(w)
    BY FrameFacts
  <2>5. /\ Completion(u) \in Items(stack') =>
             \/ Completion(u) \in Items(stack)
             \/ u = w /\ animating' = animating
        /\ Submitting(u) \in Items(stack') => Submitting(u) \in Items(stack)
        /\ ~Follows(Completion(u), Completion(u), stack)'
    <3>1. CASE stack' = stack
      BY <2>1, <3>1 DEF OnePlace
    <3>2. CASE stack' = Push(Completion(w), stack) /\ animating' = animating
      BY <1>9, <1>14, <2>1, <2>4, <3>2 DEF OnePlace
    <3>3. QED
      BY <1>5, <3>1, <3>2
  <2>6. OnePlace(u)'
    BY <1>6, <2>1, <2>2, <2>3, <2>5 DEF OnePlace, EditKept
  <2>7. /\ status' = [status EXCEPT ![w] = "deployed"] /\ DOMAIN status = Updates
        /\ animating' = animating \/ animating' = animating \cup {w}
    BY <1>1, <1>5 DEF TypeOK
  <2>8. StatusOK(u)'
    <3>1. CASE u = w
      <4>1. ~Way(u)'
        BY <1>14, <2>2, <2>3, <3>1 DEF Way
      <4>2. status'[u] = "deployed"
        BY <2>7, <3>1
      <4>3. QED
        BY <1>14, <2>1, <2>3, <2>5, <3>1, <4>1, <4>2 DEF StatusOK
    <3>2. CASE u # w
      <4>1. Way(u)' <=> Way(u)
        BY <2>2, <2>3, <3>2 DEF Way
      <4>2. status'[u] = status[u] /\ (u \in animating' <=> u \in animating)
        BY <2>7, <3>2
      <4>3. Completion(u) \in Items(stack') => Completion(u) \in Items(stack)
        BY <2>5, <3>2
      <4>4. QED
        BY <2>1, <2>3, <2>5, <4>1, <4>2, <4>3 DEF StatusOK
    <3>3. QED
      BY <3>1, <3>2
  <2>9. QED
    BY <2>6, <2>8
<1>16. PipelineOK'
  BY <1>6, <1>10, <1>12, <1>15, PipelineParts DEF EditKept
<1>17. QED
  BY <1>3, <1>5, <1>16

LEMMA DeferStep ==
  ASSUME PipelineOK, DeliverDeferred
  PROVE  PipelineOK' /\ ViewDefers
         /\ \E w \in Updates : /\ BlocksLose(w) /\ HeldGains(w)
                               /\ UNCHANGED <<mapVars, mapOf, editVars, stack>>
<1> USE DEF traitVars, syncVars, updateVars
<1>1. stack \in Seq(Frames) /\ StackOK(stack) /\ TypeOK
  BY StackFacts DEF PipelineOK
<1>2. NextBlock("update") /\ ViewDefers
  BY DEF DeliverDeferred
<1>3. PICK w \in Updates : Head(blocks) = UpdateItem(w) /\ BlocksLose(w)
  BY <1>2, BlocksTail
<1>4. Head(blocks).update = w
  BY <1>3, ItemFacts
<1>5. /\ deferred' = Append(deferred, w)
      /\ UNCHANGED editVars /\ UNCHANGED stack
      /\ UNCHANGED <<mapVars, syncVars, updateVars, animating, traitVars, mainQueue, ran>>
  BY <1>4 DEF DeliverDeferred
<1>6. EditKept /\ HeldGains(w)
  BY <1>5, EditSame, HeldAppend
<1>7. StackOK(stack')
  BY <1>1, <1>5
<1>8. TypeOK'
  BY <1>1, <1>3, <1>5, <1>6
     DEF TypeOK, EditKept, BlocksLose, HeldGains, editVars, mapVars
<1>9. ASSUME NEW u \in Updates PROVE OnePlace(u)' /\ StatusOK(u)'
  <2>1. OnePlace(u) /\ StatusOK(u) /\ OnePlace(w)
    BY DEF PipelineOK, TokensOK
  <2>2. /\ Blocked(u)' <=> Blocked(u) /\ u # w
        /\ Blocked(w)
        /\ Follows(UpdateItem(u), UpdateItem(u), blocks)' =>
             Follows(UpdateItem(u), UpdateItem(u), blocks)
    BY <1>3 DEF BlocksLose
  <2>3. /\ Fresh(u)' <=> Fresh(u)
        /\ Queued(u)' => Queued(u)
        /\ mapOf' = mapOf /\ stack' = stack /\ status' = status /\ animating' = animating
    BY <1>5, <1>6 DEF EditKept
  <2>4. /\ Held(u)' <=> Held(u) \/ u = w
        /\ Follows(u, u, deferred)' => Follows(u, u, deferred) \/ (Held(u) /\ u = w)
    BY <1>6 DEF HeldGains
  <2>5. OnePlace(u)'
    BY <1>6, <2>1, <2>2, <2>3, <2>4 DEF OnePlace, EditKept
  <2>6. Way(u)' <=> Way(u)
    BY <2>2, <2>3, <2>4 DEF Way
  <2>7. StatusOK(u)'
    BY <2>1, <2>3, <2>6 DEF StatusOK
  <2>8. QED
    BY <2>5, <2>7
<1>10. PipelineOK'
  BY <1>6, <1>7, <1>8, <1>9, PipelineParts DEF EditKept
<1>11. QED
  BY <1>2, <1>3, <1>5, <1>6, <1>10

LEMMA PushStep ==
  ASSUME PipelineOK, PushUpdate
  PROVE  PipelineOK' /\ \E w \in Updates :
                          /\ EditPushes(w) /\ BlocksGain(w)
                          /\ blocks' = Append(blocks, UpdateItem(w))
                          /\ UNCHANGED <<mapVars, mapOf, deferred, stack>>
<1> USE DEF dataVars, viewVars, traitVars, syncVars, updateVars
<1>1. stack \in Seq(Frames) /\ StackOK(stack) /\ TypeOK
  BY StackFacts DEF PipelineOK
<1>2. /\ editingQueue # <<>> /\ Head(editingQueue).kind = "update" /\ editing = "idle"
      /\ blocks' = Append(blocks, Head(editingQueue)) /\ editing' = "pushed"
      /\ UNCHANGED <<editingQueue, editingCount>> /\ UNCHANGED stack
      /\ UNCHANGED <<dataVars, mainQueue, ran>>
  BY DEF PushUpdate, EditingUpdate, EditingItem
<1>3. editingQueue \in Seq(UpdateItems \cup RetryItems)
  BY <1>1 DEF TypeOK
<1>4. PICK w \in Updates : Head(editingQueue) = UpdateItem(w)
  BY <1>2, <1>3, Popped, EditKinds
<1>5. EditPushes(w) /\ BlocksGain(w)
  BY <1>2, <1>4, EditPushed, BlocksAppend
<1>6. StackOK(stack')
  BY <1>1, <1>2
<1>7. TypeOK'
  BY <1>1, <1>2, <1>5 DEF TypeOK, BlocksGain, mapVars
<1>8. ASSUME NEW u \in Updates PROVE OnePlace(u)' /\ StatusOK(u)'
  <2>1. OnePlace(u) /\ StatusOK(u)
    BY DEF PipelineOK, TokensOK
  <2>2. /\ Blocked(u)' <=> Blocked(u) \/ u = w
        /\ Follows(UpdateItem(u), UpdateItem(u), blocks)' =>
             Follows(UpdateItem(u), UpdateItem(u), blocks) \/ (Blocked(u) /\ u = w)
    BY <1>5 DEF BlocksGain
  <2>3. /\ Fresh(u)' <=> Fresh(u) /\ u # w
        /\ Fresh(w)
        /\ editingQueue' = editingQueue
    BY <1>5 DEF EditPushes
  <2>4. /\ mapOf' = mapOf /\ stack' = stack /\ status' = status /\ animating' = animating
        /\ deferred' = deferred /\ (Held(u)' <=> Held(u)) /\ (Queued(u)' <=> Queued(u))
    BY <1>2 DEF Held, Queued
  <2>5. OnePlace(u)'
    BY <2>1, <2>2, <2>3, <2>4 DEF OnePlace
  <2>6. Way(u)' <=> Way(u)
    BY <2>2, <2>3, <2>4 DEF Way
  <2>7. StatusOK(u)'
    BY <2>1, <2>4, <2>6 DEF StatusOK
  <2>8. QED
    BY <2>5, <2>7
<1>9. PipelineOK'
  BY <1>5, <1>6, <1>7, <1>8, PipelineParts DEF EditPushes
<1>10. QED
  BY <1>2, <1>4, <1>5, <1>9

LEMMA MadeMap ==
  ASSUME TypeOK, MakeMap
  PROVE  /\ pendingMap' \in Maps /\ pendingMap' = pendingMap + 1
         /\ elementTraits' \in [Maps -> 0 .. MaxTraits]
<1>1. /\ pendingMap \in Maps /\ traits \in 0 .. MaxTraits
      /\ elementTraits \in [Maps -> 0 .. MaxTraits]
  BY DEF TypeOK
<1>2. pendingMap' = pendingMap + 1 /\ pendingMap < MaxMaps
  BY DEF MakeMap
<1>3. pendingMap' \in Maps
  BY <1>1, <1>2, BoundsAssumption DEF Maps
<1>4. elementTraits' = [elementTraits EXCEPT ![pendingMap + 1] = traits]
  BY DEF MakeMap
<1>5. QED
  BY <1>1, <1>2, <1>3, <1>4

\* The update that main submits is on top of the stack only, and nowhere else.
LEMMA SubmittedUpdate ==
  ASSUME PipelineOK, Inside("submitting")
  PROVE  \E w \in Updates :
           /\ Top = Submitting(w) /\ Top.update = w /\ status[w] = "submitted"
           /\ mapOf[w] = 0 /\ ~Way(w) /\ ~Queued(w) /\ w \notin animating
           /\ Submitting(w) \notin Items(Rest) /\ Completion(w) \notin Items(stack)
           /\ Rest \in Seq(Frames) /\ StackOK(Rest) /\ Plain(Rest)
<1>1. stack # <<>> /\ Top.kind = "submitting"
  BY DEF Inside, Top
<1>2. /\ stack \in Seq(Frames) /\ Top \in Frames /\ Rest \in Seq(Frames) /\ StackOK(Rest)
      /\ Plain(Rest) /\ Items(stack) = Items(Rest) \cup {Top}
  BY <1>1, StackFacts
<1>3. PICK w \in Updates : Top = Submitting(w)
  BY <1>1, <1>2, FrameKinds
<1>4. OnePlace(w) /\ StatusOK(w)
  BY DEF PipelineOK, TokensOK
<1>5. Submitting(w) \notin Items(Rest)
  BY <1>1, OnlyTop, FrameFacts
<1>6. status[w] = "submitted" /\ Completion(w) \notin Items(stack)
  BY <1>2, <1>3, <1>4 DEF StatusOK
<1>7. mapOf[w] = 0 /\ ~Way(w) /\ ~Queued(w) /\ w \notin animating
  BY <1>4, <1>6 DEF StatusOK
<1>8. QED
  BY <1>2, <1>3, <1>5, <1>6, <1>7, FrameFacts

\* Before the first reload: the change set completes without a map.
LEMMA SkipStep ==
  ASSUME PipelineOK, NEW empty \in BOOLEAN, NEW wait \in BOOLEAN, Latch(empty, wait),
         ~initialReload
  PROVE  /\ PipelineOK' /\ Kept
         /\ \E w \in Updates : stack' = Push(Completion(w), Rest)
         /\ UNCHANGED <<elementTraits, initialReload, traits, blocks, mainQueue>>
<1> USE DEF mapVars, syncVars, viewVars
<1>1. stack \in Seq(Frames) /\ StackOK(stack) /\ TypeOK /\ Inside("submitting")
  BY StackFacts DEF PipelineOK, Latch
<1>2. PICK w \in Updates :
        /\ Top = Submitting(w) /\ Top.update = w /\ status[w] = "submitted"
        /\ mapOf[w] = 0 /\ ~Way(w) /\ ~Queued(w) /\ w \notin animating
        /\ Submitting(w) \notin Items(Rest) /\ Completion(w) \notin Items(stack)
        /\ Rest \in Seq(Frames) /\ StackOK(Rest) /\ Plain(Rest)
  BY <1>1, SubmittedUpdate
<1>3. /\ stack' = Push(Completion(w), Rest)
      /\ UNCHANGED editVars /\ UNCHANGED blocks
      /\ UNCHANGED <<mapVars, elementTraits, mapOf, status, syncVars, initialReload,
                     isReload, viewVars, traits, mainQueue, ran>>
  BY <1>2 DEF Latch, Push
<1>4. EditKept /\ BlocksKept
  BY <1>3, EditSame, BlocksSame
<1>5. Completion(w) \in Frames
  BY FrameMembers
<1>6. /\ stack' \in Seq(Frames) /\ StackOK(stack')
      /\ Items(stack') = Items(Rest) \cup {Completion(w)}
      /\ \A x, y : Follows(x, y, stack') <=>
           Follows(x, y, Rest) \/ (x = Completion(w) /\ y \in Items(Rest))
  <2>1. StackOK(Push(Completion(w), Rest))
    BY <1>2, <1>5, PlainBelow, PushedStackOK
  <2>2. /\ Push(Completion(w), Rest) \in Seq(Frames)
        /\ Items(Push(Completion(w), Rest)) = Items(Rest) \cup {Completion(w)}
        /\ \A x, y : Follows(x, y, Push(Completion(w), Rest)) <=>
             Follows(x, y, Rest) \/ (x = Completion(w) /\ y \in Items(Rest))
    <3>1. PICK r \in Seq(Frames), f \in Frames : r = Rest /\ f = Completion(w)
      BY <1>2, <1>5
    <3>2. /\ Push(f, r) \in Seq(Frames) /\ Items(Push(f, r)) = Items(r) \cup {f}
          /\ \A x, y : Follows(x, y, Push(f, r)) <=>
               Follows(x, y, r) \/ (x = f /\ y \in Items(r))
      BY Pushed
    <3>3. QED
      BY <3>1, <3>2
  <2>3. QED
    BY <1>3, <2>1, <2>2
<1>7. TypeOK'
  BY <1>1, <1>3, <1>4, <1>6 DEF TypeOK, EditKept, BlocksKept, editVars
<1>8. /\ Items(stack) = Items(Rest) \cup {Top}
      /\ \A x, y : Follows(x, y, Rest) => Follows(x, y, stack)
  BY <1>1, Popped DEF Inside, Top, Rest
<1>9. ASSUME NEW u \in Updates PROVE OnePlace(u)' /\ StatusOK(u)'
  <2>1. OnePlace(u) /\ StatusOK(u)
    BY DEF PipelineOK, TokensOK
  <2>2. /\ Held(u)' <=> Held(u)
        /\ Blocked(u)' <=> Blocked(u)
        /\ Fresh(u)' <=> Fresh(u)
        /\ Queued(u)' => Queued(u)
        /\ mapOf' = mapOf /\ deferred' = deferred /\ status' = status
        /\ animating' = animating
    BY <1>3, <1>4 DEF Held, EditKept, BlocksKept
  <2>3. /\ Completion(u) = Completion(w) => u = w
        /\ Submitting(u) # Completion(w)
    BY FrameFacts
  <2>4. /\ Completion(u) \in Items(stack') => Completion(u) \in Items(stack) \/ u = w
        /\ Submitting(u) \in Items(stack') => Submitting(u) \in Items(stack) /\ u # w
        /\ ~Follows(Completion(u), Completion(u), stack)'
    BY <1>2, <1>6, <1>8, <2>1, <2>3 DEF OnePlace
  <2>5. OnePlace(u)'
    BY <1>4, <2>1, <2>2, <2>4 DEF OnePlace, EditKept, BlocksKept
  <2>6. Way(u)' <=> Way(u)
    BY <2>2 DEF Way
  <2>7. StatusOK(u)'
    BY <1>2, <2>1, <2>2, <2>4, <2>6 DEF StatusOK
  <2>8. QED
    BY <2>5, <2>7
<1>10. PipelineOK'
  BY <1>4, <1>6, <1>7, <1>9, PipelineParts DEF EditKept
<1>11. QED
  BY <1>3, <1>4, <1>10 DEF Kept

\* After it: the update is latched and waits for the editing thread.
Latched(w) ==
  /\ Inside("submitting") /\ EditGains(w) /\ BlocksKept /\ ~Way(w) /\ ~Queued(w)
  /\ Optimized \/ GroupEmpty
  /\ initialReload /\ Calm(stack')
  /\ (pendingMap' = pendingMap /\ UNCHANGED elementTraits) \/ MakeMap
  /\ mapOf' = [mapOf EXCEPT ![w] = pendingMap']
  /\ stack' = Rest \/ stack' = Push(Waiting(NoopItem, pendingMap'), Rest)
  /\ UNCHANGED <<visibleMap, deferred, initialReload, blocks, traits, mainQueue>>

LEMMA LatchStep ==
  ASSUME PipelineOK, NEW empty \in BOOLEAN, NEW wait \in BOOLEAN, Latch(empty, wait),
         initialReload
  PROVE  PipelineOK' /\ \E w \in Updates : Latched(w)
<1> USE DEF syncVars, viewVars
<1>1. stack \in Seq(Frames) /\ StackOK(stack) /\ TypeOK /\ Inside("submitting")
  BY StackFacts DEF PipelineOK, Latch
<1>2. PICK w \in Updates :
        /\ Top = Submitting(w) /\ Top.update = w /\ status[w] = "submitted"
        /\ mapOf[w] = 0 /\ ~Way(w) /\ ~Queued(w) /\ w \notin animating
        /\ Submitting(w) \notin Items(Rest) /\ Completion(w) \notin Items(stack)
        /\ Rest \in Seq(Frames) /\ StackOK(Rest) /\ Plain(Rest)
  BY <1>1, SubmittedUpdate
<1>3. /\ (pendingMap' = pendingMap /\ UNCHANGED elementTraits) \/ MakeMap
      /\ mapOf' = [mapOf EXCEPT ![w] = pendingMap']
      /\ status' = [status EXCEPT ![w] = "latched"]
      /\ editingCount' = editingCount + 1
      /\ editingQueue' = Append(editingQueue, UpdateItem(w))
      /\ stack' = (IF wait THEN <<Waiting(NoopItem, pendingMap')>> ELSE <<>>) \o Rest
      /\ UNCHANGED visibleMap /\ UNCHANGED editing /\ UNCHANGED blocks
      /\ UNCHANGED <<syncVars, initialReload, isReload, viewVars, traits, mainQueue, ran>>
      /\ Optimized \/ GroupEmpty
  BY <1>2 DEF Latch
<1>4. EditGains(w) /\ BlocksKept
  BY <1>2, <1>3, EditAppends, BlocksSame
<1>5. /\ pendingMap' \in Maps
      /\ elementTraits' \in [Maps -> 0 .. MaxTraits]
  BY <1>1, <1>3, MadeMap DEF TypeOK
<1>6. stack' = Rest \/ stack' = Push(Waiting(NoopItem, pendingMap'), Rest)
  BY <1>2, <1>3 DEF Push
<1>7. /\ Calm(Rest) /\ Items(stack) = Items(Rest) \cup {Top}
  BY <1>1, StackFacts DEF Inside
<1>8. PICK m \in Maps : m = pendingMap'
  BY <1>5
<1>9. /\ Waiting(NoopItem, m) \in Frames /\ Waiting(NoopItem, m).kind = "waiting"
  BY FrameMembers, FrameFacts
<1>10. Calm(Push(Waiting(NoopItem, m), Rest))
  BY <1>2, <1>7, <1>9, PushPlain
<1>11. Calm(stack') /\ stack' \in Seq(Frames) /\ StackOK(stack')
  BY <1>6, <1>7, <1>8, <1>10 DEF Calm
<1>12. /\ status' \in [Updates -> {"none", "submitted", "latched", "deployed", "completed"}]
       /\ mapOf' \in [Updates -> Maps]
  <2>1. /\ status \in [Updates -> {"none", "submitted", "latched", "deployed", "completed"}]
        /\ mapOf \in [Updates -> Maps]
    BY <1>1 DEF TypeOK
  <2>2. QED
    BY <1>3, <1>5, <2>1
<1>13. editingCount' \in Nat
  BY <1>1, <1>3 DEF TypeOK
<1>14. TypeOK'
  BY <1>1, <1>3, <1>4, <1>5, <1>11, <1>12, <1>13 DEF TypeOK, EditGains, BlocksKept
<1>15. Submitting(w) \notin Items(stack')
  <2>1. Items(Push(Waiting(NoopItem, m), Rest)) = Items(Rest) \cup {Waiting(NoopItem, m)}
    BY <1>2, <1>9, Pushed
  <2>2. Submitting(w) # Waiting(NoopItem, m)
    BY FrameFacts
  <2>3. QED
    BY <1>2, <1>6, <1>8, <2>1, <2>2
<1>16. ASSUME NEW u \in Updates PROVE OnePlace(u)' /\ StatusOK(u)'
  <2>1. OnePlace(u) /\ StatusOK(u)
    BY DEF PipelineOK, TokensOK
  <2>2. /\ Queued(u)' <=> Queued(u) \/ u = w
        /\ Fresh(u)' <=> Fresh(u) \/ u = w
        /\ Follows(UpdateItem(u), UpdateItem(u), editingQueue)' =>
             Follows(UpdateItem(u), UpdateItem(u), editingQueue) \/ (Queued(u) /\ u = w)
    BY <1>4 DEF EditGains
  <2>3. /\ Blocked(u)' <=> Blocked(u)
        /\ Follows(UpdateItem(u), UpdateItem(u), blocks)' =>
             Follows(UpdateItem(u), UpdateItem(u), blocks)
    BY <1>4 DEF BlocksKept
  <2>4. deferred' = deferred /\ animating' = animating /\ (Held(u)' <=> Held(u))
    BY <1>3 DEF Held
  <2>5. /\ Submitting(u) \in Items(stack') => Submitting(u) \in Items(stack) /\ u # w
        /\ Completion(u) \in Items(stack') => Completion(u) \in Items(stack) /\ u # w
        /\ Follows(Completion(u), Completion(u), stack)' =>
             Follows(Completion(u), Completion(u), stack)
    BY <1>2, <1>11, <1>15 DEF Calm
  <2>6. OnePlace(u)'
    BY <1>2, <2>1, <2>2, <2>3, <2>4, <2>5 DEF OnePlace, Way
  <2>7. /\ status' = [status EXCEPT ![w] = "latched"] /\ DOMAIN status = Updates
        /\ mapOf' = [mapOf EXCEPT ![w] = pendingMap'] /\ DOMAIN mapOf = Updates
    BY <1>1, <1>3 DEF TypeOK
  <2>8. StatusOK(u)'
    <3>1. CASE u = w
      <4>1. status'[u] = "latched"
        BY <2>7, <3>1
      <4>2. QED
        BY <1>2, <2>4, <2>5, <3>1, <4>1 DEF StatusOK
    <3>2. CASE u # w
      <4>1. Way(u)' <=> Way(u)
        BY <2>2, <2>3, <2>4, <3>2 DEF Way
      <4>2. status'[u] = status[u] /\ mapOf'[u] = mapOf[u]
        BY <2>7, <3>2
      <4>3. QED
        BY <2>1, <2>2, <2>4, <2>5, <3>2, <4>1, <4>2 DEF StatusOK
    <3>3. QED
      BY <3>1, <3>2
  <2>9. QED
    BY <2>6, <2>8
<1>17. PipelineOK'
  BY <1>4, <1>11, <1>14, <1>16, PipelineParts DEF EditGains
<1>18. Latched(w)
  BY <1>1, <1>2, <1>3, <1>4, <1>6, <1>11 DEF Latched, BlocksKept
<1>19. QED
  BY <1>17, <1>18

-----------------------------------------------------------------------------
(* The pipeline. *)

LEMMA PipelineInit == Init => PipelineOK
<1>1. SUFFICES ASSUME Init PROVE PipelineOK
  OBVIOUS
<1> USE DEF Init
<1>2. /\ editingQueue = <<>> /\ blocks = <<>> /\ stack = <<>> /\ deferred = <<>>
      /\ editing = "idle" /\ animating = {} /\ FreshQueue = <<>> /\ CountedQueue = <<>>
  BY <1>1 DEF FreshQueue, CountedQueue
<1>3. TypeOK
  <2>1. 0 \in Maps /\ 0 \in 0 .. MaxTraits /\ 0 \in Nat
    BY BoundsAssumption DEF Maps
  <2>2. QED
    BY <1>1, <2>1 DEF TypeOK
<1>4. StackOK(stack)
  BY <1>2, Empty DEF StackOK
<1>5. EditingOK
  <2>1. Counted = {}
    BY <1>2, Empty DEF Counted
  <2>2. IsFiniteSet({}) /\ Cardinality({}) = 0
    BY FS_EmptySet
  <2>3. QED
    BY <1>1, <1>2, <2>1, <2>2 DEF EditingOK
<1>6. ASSUME NEW u \in Updates PROVE OnePlace(u) /\ StatusOK(u)
  BY <1>1, <1>2, Empty
     DEF OnePlace, StatusOK, Way, Held, Blocked, Fresh, Queued
<1>7. QED
  BY <1>3, <1>4, <1>5, <1>6 DEF PipelineOK, TokensOK

LEMMA PipelineStutter ==
  ASSUME PipelineOK, UNCHANGED vars
  PROVE  PipelineOK'
<1>1. UNCHANGED <<pendingMap, visibleMap, synchronized, syncBlocks, editingQueue, editing,
                  editingCount, initialReload, status, mapOf, isReload, deferred, animating,
                  traits, elementTraits, blocks, mainQueue, stack, ran>>
  BY DEF vars, mapVars, syncVars, editVars, updateVars, viewVars, traitVars
<1>2. TypeOK /\ TypeOK'
  BY <1>1 DEF PipelineOK, TypeOK
<1>3. EditKept /\ BlocksKept /\ Calm(stack)
  BY <1>1, EditSame, BlocksSame, StackFacts DEF editVars
<1>4. Quiet
  BY <1>1, <1>2, <1>3 DEF Quiet, TypeOK
<1>5. QED
  BY <1>2, <1>4, QuietStep DEF PipelineOK

LEMMA PipelineNext ==
  ASSUME PipelineOK, [Next]_vars
  PROVE  PipelineOK'
<1>1. CASE Quiet /\ TypeOK'
  BY <1>1, QuietStep DEF PipelineOK
<1>2. CASE ClientStep
  <2>1. ASSUME NEW u \in Updates, NEW reload \in BOOLEAN, Submit(u, reload)
        PROVE  PipelineOK'
    BY <2>1, SubmitStep
  <2>2. QED
    BY <1>1, <1>2, <2>1, QuietClient DEF ClientStep
<1>3. CASE MainStep
  <2>1. ASSUME NEW empty \in BOOLEAN, NEW wait \in BOOLEAN, Latch(empty, wait)
        PROVE  PipelineOK'
    BY <2>1, SkipStep, LatchStep
  <2>2. CASE CompletionReturns
    BY <2>2, CompletionStep
  <2>3. CASE DeliverAtOnce \/ DeliverAnimated
    BY <2>3, DeliverStep
  <2>4. CASE DeliverDeferred
    BY <2>4, DeferStep
  <2>5. CASE \/ CallbackReturns \/ EndWait \/ WaitReturns \/ FinishClear
             \/ RunNoop \/ RunRelayout \/ RunTraits \/ QueueDrained
    BY <1>1, <2>5, QuietMain
  <2>6. CASE \/ FinishCheck \/ \E b \in SyncBlocks : RunSyncBlock(b)
             \/ RemoveSyncBlocks \/ RunBlocks \/ Retry \/ EnvironmentDidChange
    BY <1>1, <2>6, QuietRest
  <2>7. QED
    BY <1>3, <2>1, <2>2, <2>3, <2>4, <2>5, <2>6 DEF MainStep
<1>4. CASE ViewStep
  <2>1. CASE ConsumeUpdate
    BY <2>1, ConsumeStep
  <2>2. ASSUME NEW u \in Updates, AnimationsEnd(u) PROVE PipelineOK'
    BY <2>2, AnimationsStep
  <2>3. QED
    BY <1>4, <2>1, <2>2 DEF ViewStep
<1>5. CASE EditingStep
  <2>1. CASE PushUpdate
    BY <2>1, PushStep
  <2>2. CASE DispatchRun \/ Uncount \/ LeaveGroup \/ BringRetryToMain
    BY <1>1, <2>2, QuietRest
  <2>3. QED
    BY <1>5, <2>1, <2>2 DEF EditingStep
<1>6. CASE UNCHANGED vars
  BY <1>6, PipelineStutter
<1>7. QED
  BY <1>2, <1>3, <1>4, <1>5, <1>6 DEF Next

\* Whatever the client, the view and the pipeline's experiments do: each change
\* set is in at most one place of the pipeline, with the status that place has,
\* the counter counts those the editing queue holds, and no method is called by
\* one that waits.
THEOREM PipelineInvariance == Spec => []PipelineOK
<1>1. PipelineOK /\ [Next]_vars => PipelineOK'
  BY PipelineNext
<1>2. QED
  BY PipelineInit, <1>1, PTL DEF Spec

\* The state always has the types the code declares.
THEOREM TypeCorrect == Spec => []TypeOK
<1>1. PipelineOK => TypeOK
  BY DEF PipelineOK
<1>2. QED
  BY <1>1, PipelineInvariance, PTL

LEMMA CompletesInOrder == PipelineOK => CompletionFollowsDeploy
<1>1. SUFFICES ASSUME PipelineOK PROVE CompletionFollowsDeploy
  OBVIOUS
<1>2. ASSUME NEW u \in Updates, Completion(u) \in Items(stack)
      PROVE  status[u] = "deployed" \/ (status[u] = "submitted" /\ mapOf[u] = 0)
  BY <1>1, <1>2 DEF PipelineOK, TokensOK, StatusOK
<1>3. ASSUME NEW i \in DOMAIN stack, NEW j \in DOMAIN stack,
             stack[i].kind = "completion", stack[i] = stack[j]
      PROVE  i = j
  <2>1. stack \in Seq(Frames)
    BY <1>1, StackFacts
  <2>2. DOMAIN stack = 1 .. Len(stack) /\ Len(stack) \in Nat /\ stack[i] \in Frames
    BY <2>1
  <2>3. PICK u \in Updates : stack[i] = Completion(u)
    BY <1>3, <2>2, FrameKinds
  <2>4. ~Follows(Completion(u), Completion(u), stack)
    BY <1>1 DEF PipelineOK, TokensOK, OnePlace
  <2>5. ~(i < j) /\ ~(j < i)
    BY <1>3, <2>3, <2>4 DEF Follows
  <2>6. QED
    BY <2>2, <2>5
<1>4. QED
  BY <1>2, <1>3 DEF CompletionFollowsDeploy

\* A change set completes after its map was displayed, or without a map before
\* the first reload, and its handler is never called from within itself, however
\* handlers submit and wait again and the view defers or animates.
THEOREM CompletionAlwaysFollowsDeploy == Spec => []CompletionFollowsDeploy
BY CompletesInOrder, PipelineInvariance, PTL

-----------------------------------------------------------------------------
(* The steps that touch neither a map nor a wait. *)

\* No wait is lost, none returns, and no update or map is about to be made.
Gentle(s) ==
  /\ \A f \in Items(s) :
       \/ f \in Items(stack)
       \/ f.kind \in {"running", "callback", "checking", "synchronizing", "completion"}
       \/ f.kind = "waiting" /\ f.item.kind # "relayout" /\ f.from = pendingMap
  /\ \A f, g \in Frames : Next2(f, g, s) /\ f.kind = "waited" => Next2(f, g, stack)
  /\ \A f \in Items(stack) : f.kind = "waiting" => f \in Items(s)

Settled(s) == s = <<>> \/ Head(s).kind \notin {"waited", "clearing"}

\* The next block, if one is taken off the queue, is an empty one.
NoopTaken ==
  \/ blocks' = blocks
  \/ blocks # <<>> /\ Head(blocks) = NoopItem /\ blocks' = Tail(blocks)

Still ==
  /\ Kept /\ NoopTaken
  /\ stack' \in Seq(Frames) /\ Gentle(stack')
  /\ Settled(stack') \/ stack' = stack
  /\ initialReload => initialReload'

TraitsStill ==
  /\ UNCHANGED <<traits, elementTraits>>
  /\ TraitsChanged \in Items(mainQueue) => TraitsChanged \in Items(mainQueue')

\* What a gentle step may push: a frame of the controller, or a wait.
GentleFrame(f) ==
  \/ f.kind \in {"running", "callback", "checking", "synchronizing", "completion"}
  \/ f.kind = "waiting" /\ f.item.kind # "relayout" /\ f.from = pendingMap

LEMMA GentleStack ==
  ASSUME PipelineOK
  PROVE  /\ Gentle(stack) /\ (stack = <<>> => Settled(stack))
         /\ stack # <<>> /\ Top.kind # "waiting" => Gentle(Rest)
         /\ stack # <<>> /\ Top.kind \notin {"running", "waiting", "waited"} => Settled(Rest)
<1>1. Gentle(stack) /\ (stack = <<>> => Settled(stack))
  BY DEF Gentle, Settled
<1>2. ASSUME stack # <<>>, Top.kind # "waiting" PROVE Gentle(Rest)
  <2>1. stack \in Seq(Frames) /\ Items(stack) = Items(Rest) \cup {Top}
    BY <1>2, StackFacts
  <2>2. \A x, y : Next2(x, y, Rest) => Next2(x, y, stack)
    BY <1>2, <2>1, Popped DEF Rest
  <2>3. QED
    BY <1>2, <2>1, <2>2 DEF Gentle
<1>3. ASSUME stack # <<>>, Top.kind \notin {"running", "waiting", "waited"}
      PROVE  Settled(Rest)
  <2>1. Plain(Rest)
    BY <1>3, StackFacts
  <2>2. QED
    BY <2>1 DEF Plain, Settled
<1>4. QED
  BY <1>1, <1>2, <1>3

LEMMA GentlePush ==
  ASSUME NEW s \in Seq(Frames), Gentle(s), NEW f \in Frames, GentleFrame(f)
  PROVE  /\ Gentle(Push(f, s)) /\ Settled(Push(f, s)) /\ Push(f, s) \in Seq(Frames)
<1>1. /\ Push(f, s) \in Seq(Frames) /\ Push(f, s) # <<>> /\ Head(Push(f, s)) = f
      /\ Items(Push(f, s)) = Items(s) \cup {f}
      /\ \A x, y : Next2(x, y, Push(f, s)) <=>
           Next2(x, y, s) \/ (s # <<>> /\ x = f /\ y = Head(s))
  <2>1. Push(f, s) \in Seq(Frames) /\ Push(f, s) # <<>> /\ Head(Push(f, s)) = f
    BY Pushed
  <2>2. Items(Push(f, s)) = Items(s) \cup {f}
    BY Pushed
  <2>3. \A x, y : Next2(x, y, Push(f, s)) <=>
           Next2(x, y, s) \/ (s # <<>> /\ x = f /\ y = Head(s))
    BY Pushed
  <2>4. QED
    BY <2>1, <2>2, <2>3
<1>2. f.kind \notin {"waited", "clearing"}
  BY DEF GentleFrame
<1>3. Settled(Push(f, s))
  BY <1>1, <1>2 DEF Settled
<1>4. Gentle(Push(f, s))
  BY <1>1, <1>2 DEF Gentle, GentleFrame
<1>5. QED
  BY <1>1, <1>3, <1>4

LEMMA GentleFrames ==
  ASSUME PipelineOK
  PROVE  /\ \A i \in {NoopItem, TraitsItem} :
              /\ Waiting(i, pendingMap) \in Frames /\ GentleFrame(Waiting(i, pendingMap))
              /\ Waiting(i, pendingMap).kind = "waiting" /\ Waiting(i, pendingMap).item = i
         /\ \A r \in RetryItems : Checking(r) \in Frames /\ GentleFrame(Checking(r))
         /\ \A S \in SUBSET SyncBlocks :
              Synchronizing(S) \in Frames /\ GentleFrame(Synchronizing(S))
         /\ \A u \in Updates : Completion(u) \in Frames /\ GentleFrame(Completion(u))
         /\ Running \in Frames /\ GentleFrame(Running)
         /\ Callback \in Frames /\ GentleFrame(Callback)
<1>1. pendingMap \in Maps
  BY DEF PipelineOK, TypeOK
<1>2. ASSUME NEW i \in {NoopItem, TraitsItem}
      PROVE  /\ Waiting(i, pendingMap) \in Frames /\ GentleFrame(Waiting(i, pendingMap))
             /\ Waiting(i, pendingMap).kind = "waiting" /\ Waiting(i, pendingMap).item = i
  BY <1>1, <1>2, FrameMembers, FrameFacts, ItemFacts DEF GentleFrame
<1>3. \A r \in RetryItems : Checking(r) \in Frames /\ GentleFrame(Checking(r))
  BY FrameMembers, FrameFacts DEF GentleFrame
<1>4. \A S \in SUBSET SyncBlocks : Synchronizing(S) \in Frames /\ GentleFrame(Synchronizing(S))
  BY FrameMembers, FrameFacts DEF GentleFrame
<1>5. \A u \in Updates : Completion(u) \in Frames /\ GentleFrame(Completion(u))
  BY FrameMembers, FrameFacts DEF GentleFrame
<1>6. Running \in Frames /\ GentleFrame(Running) /\ Callback \in Frames /\ GentleFrame(Callback)
  BY FrameMembers, FrameFacts DEF GentleFrame
<1>7. QED
  BY <1>2, <1>3, <1>4, <1>5, <1>6

LEMMA StillParts ==
  ASSUME Quiet, UNCHANGED mapVars, NoopTaken, Gentle(stack'),
         Settled(stack') \/ stack' = stack, UNCHANGED initialReload
  PROVE  Still
BY DEF Quiet, Still, Kept, mapVars

LEMMA StillClient ==
  ASSUME PipelineOK,
         \/ WaitUntilAllUpdatesAreProcessed
         \/ \E c \in Callbacks : OnDidFinishProcessingUpdates(c)
         \/ \E b \in SyncBlocks : OnDidFinishSynchronizing(b)
  PROVE  Still /\ TraitsStill
<1> USE DEF dataVars, viewVars, updateVars, traitVars
<1>1. Quiet /\ stack \in Seq(Frames) /\ Gentle(stack)
  BY QuietClient, StackFacts, GentleStack
<1>2. CASE WaitUntilAllUpdatesAreProcessed
  <2>1. stack' = Push(Waiting(NoopItem, pendingMap), stack) /\ UNCHANGED notStack
    BY <1>2 DEF WaitUntilAllUpdatesAreProcessed, Push
  <2>2. Gentle(stack') /\ Settled(stack')
    BY <1>1, <2>1, GentlePush, GentleFrames
  <2>3. QED
    BY <1>1, <2>1, <2>2, StillParts DEF notStack, NoopTaken, TraitsStill
<1>3. ASSUME NEW c \in Callbacks, OnDidFinishProcessingUpdates(c)
      PROVE  Still /\ TraitsStill
  <2>1. RetryItem(c) \in RetryItems
    BY DEF RetryItems
  <2>2. /\ stack' = Push(Checking(RetryItem(c)), stack) \/ stack' = stack
        /\ UNCHANGED <<dataVars, blocks, mainQueue>>
    BY <1>1, <1>3 DEF OnDidFinishProcessingUpdates, StartCheck, Push
  <2>3. Gentle(stack') /\ (Settled(stack') \/ stack' = stack)
    BY <1>1, <2>1, <2>2, GentlePush, GentleFrames
  <2>4. QED
    BY <1>1, <2>2, <2>3, StillParts DEF NoopTaken, TraitsStill
<1>4. ASSUME NEW b \in SyncBlocks, OnDidFinishSynchronizing(b)
      PROVE  Still /\ TraitsStill
  <2>1. /\ stack' = Push(Callback, stack) \/ stack' = stack
        /\ UNCHANGED <<mapVars, updateVars, traitVars, blocks, mainQueue>>
    BY <1>1, <1>4 DEF OnDidFinishSynchronizing, Push
  <2>2. Gentle(stack') /\ (Settled(stack') \/ stack' = stack)
    BY <1>1, <2>1, GentlePush, GentleFrames
  <2>3. QED
    BY <1>1, <2>1, <2>2, StillParts DEF NoopTaken, TraitsStill
<1>5. QED
  BY <1>2, <1>3, <1>4

LEMMA StillMain ==
  ASSUME PipelineOK,
         \/ CallbackReturns \/ RunNoop \/ FinishCheck
         \/ \E b \in SyncBlocks : RunSyncBlock(b)
         \/ RemoveSyncBlocks \/ RunBlocks \/ Retry
  PROVE  Still /\ TraitsStill
<1> USE DEF dataVars, viewVars, updateVars, traitVars
<1>1. /\ Quiet /\ stack \in Seq(Frames) /\ Gentle(stack)
      /\ stack = <<>> => Settled(stack)
  BY QuietMain, QuietRest, StackFacts, GentleStack
<1>2. stack # <<>> /\ Top.kind \in {"callback", "checking", "synchronizing"} =>
        /\ Gentle(Rest) /\ Settled(Rest) /\ Rest \in Seq(Frames) /\ Top \in Frames
  BY StackFacts, GentleStack
<1>3. CASE CallbackReturns
  <2>1. /\ stack # <<>> /\ Top.kind = "callback" /\ stack' = Rest /\ UNCHANGED notStack
    BY <1>3 DEF CallbackReturns, Inside, Top
  <2>2. QED
    BY <1>1, <1>2, <2>1, StillParts DEF notStack, NoopTaken, TraitsStill
<1>4. CASE RunNoop
  <2>1. /\ blocks # <<>> /\ Head(blocks).kind = "noop" /\ blocks' = Tail(blocks)
        /\ UNCHANGED <<dataVars, mainQueue, stack>>
    BY <1>4 DEF RunNoop, NextBlock
  <2>2. blocks \in Seq(BlockItems)
    BY DEF PipelineOK, TypeOK, BlockItems
  <2>3. Head(blocks) = NoopItem
    BY <2>1, <2>2, Popped, BlockKinds DEF BlockItems
  <2>4. QED
    BY <1>1, <2>1, <2>3, StillParts DEF NoopTaken, TraitsStill
<1>5. CASE FinishCheck
  <2>1. /\ stack # <<>> /\ Top.kind = "checking"
        /\ UNCHANGED <<dataVars, blocks, mainQueue>>
        /\ \/ stack' = Rest
           \/ stack' = <<Callback>> \o Rest
           \/ stack' = <<Synchronizing(syncBlocks)>> \o Rest
    <3>1. Rest \in Seq(Frames)
      BY <1>2, <1>5 DEF FinishCheck, Inside, Top
    <3>2. <<>> \o Rest = Rest
      BY <3>1
    <3>3. QED
      BY <1>5, <3>2 DEF FinishCheck, Inside, Top
  <2>2. syncBlocks \in SUBSET SyncBlocks
    BY DEF PipelineOK, TypeOK
  <2>3. \/ stack' = Rest
        \/ stack' = Push(Callback, Rest)
        \/ stack' = Push(Synchronizing(syncBlocks), Rest)
    BY <2>1 DEF Push
  <2>4. Gentle(stack') /\ Settled(stack')
    BY <1>2, <2>1, <2>2, <2>3, GentlePush, GentleFrames
  <2>5. QED
    BY <1>1, <2>1, <2>4, StillParts DEF NoopTaken, TraitsStill
<1>6. ASSUME NEW b \in SyncBlocks, RunSyncBlock(b) PROVE Still /\ TraitsStill
  <2>1. /\ stack # <<>> /\ Top.kind = "synchronizing"
        /\ stack' = <<Callback, Synchronizing(Top.left \ {b})>> \o Rest
        /\ UNCHANGED <<dataVars, blocks, mainQueue>>
    BY <1>6 DEF RunSyncBlock, Inside, Top
  <2>2. PICK S \in SUBSET SyncBlocks : Top = Synchronizing(S)
    BY <1>2, <2>1, FrameKinds
  <2>3. Top.left \ {b} \in SUBSET SyncBlocks
    BY <2>2, FrameFacts
  <2>4. PICK f \in Frames : f = Synchronizing(Top.left \ {b}) /\ GentleFrame(f)
    BY <2>3, GentleFrames
  <2>5. Gentle(Push(f, Rest)) /\ Push(f, Rest) \in Seq(Frames)
    BY <1>2, <2>1, <2>4, GentlePush
  <2>6. stack' = Push(Callback, Push(f, Rest))
    BY <1>2, <2>1, <2>4 DEF Push
  <2>7. Gentle(stack') /\ Settled(stack')
    BY <2>5, <2>6, GentlePush, GentleFrames
  <2>8. QED
    BY <1>1, <2>1, <2>7, StillParts DEF NoopTaken, TraitsStill
<1>7. CASE RemoveSyncBlocks
  <2>1. /\ stack # <<>> /\ Top.kind = "synchronizing" /\ stack' = Rest
        /\ UNCHANGED <<mapVars, updateVars, traitVars, blocks, mainQueue>>
    BY <1>7 DEF RemoveSyncBlocks, Inside, Top
  <2>2. QED
    BY <1>1, <1>2, <2>1, StillParts DEF NoopTaken, TraitsStill
<1>8. ASSUME NEW k, MainItem(k), k # "environment"
      PROVE  TraitsChanged \in Items(mainQueue) => TraitsChanged \in Items(mainQueue')
  <2>1. /\ mainQueue \in Seq({RunItem, TraitsChanged} \cup RetryItems)
        /\ mainQueue # <<>> /\ mainQueue' = Tail(mainQueue) /\ Head(mainQueue).kind = k
    BY <1>8 DEF MainItem, PipelineOK, TypeOK
  <2>2. Items(mainQueue) = Items(mainQueue') \cup {Head(mainQueue)}
    BY <2>1, Popped
  <2>3. TraitsChanged.kind = "environment"
    BY DEF TraitsChanged
  <2>4. QED
    BY <1>8, <2>1, <2>2, <2>3
<1>9. CASE RunBlocks
  <2>1. /\ MainItem("run") /\ stack = <<>> /\ stack' = Push(Running, stack)
        /\ UNCHANGED <<dataVars, blocks>>
    BY <1>9 DEF RunBlocks, MainItem, Push
  <2>2. Gentle(stack') /\ Settled(stack')
    BY <1>1, <2>1, GentlePush, GentleFrames
  <2>3. QED
    BY <1>1, <1>8, <2>1, <2>2, StillParts DEF NoopTaken, TraitsStill
<1>10. CASE Retry
  <2>1. /\ MainItem("retry") \/ MainItem("retrySync")
        /\ stack = <<>> /\ mainQueue # <<>>
        /\ \/ stack' = Push(Checking(Head(mainQueue)), stack)
           \/ stack' = stack
        /\ UNCHANGED <<dataVars, blocks>>
    BY <1>10 DEF Retry, MainItem, StartCheck, Push
  <2>2. Head(mainQueue) \in RetryItems
    <3>1. mainQueue \in Seq({RunItem, TraitsChanged} \cup RetryItems)
      BY DEF PipelineOK, TypeOK
    <3>2. Head(mainQueue) \in {RunItem, TraitsChanged} \cup RetryItems
      BY <2>1, <3>1, Popped
    <3>3. QED
      BY <2>1, <3>2, MainKinds DEF MainItem
  <2>3. Gentle(stack') /\ Settled(stack')
    BY <1>1, <2>1, <2>2, GentlePush, GentleFrames
  <2>4. QED
    BY <1>1, <1>8, <2>1, <2>3, StillParts DEF NoopTaken, TraitsStill
<1>11. QED
  BY <1>3, <1>4, <1>5, <1>6, <1>7, <1>9, <1>10

LEMMA StillCompletion ==
  ASSUME PipelineOK,
         \/ CompletionReturns
         \/ \E u \in Updates : AnimationsEnd(u)
         \/ ~initialReload /\ \E empty, wait \in BOOLEAN : Latch(empty, wait)
  PROVE  Still /\ TraitsStill
<1> USE DEF updateVars, traitVars, mapVars
<1>1. /\ stack \in Seq(Frames) /\ Gentle(stack) /\ (stack = <<>> => Settled(stack))
      /\ stack # <<>> /\ Top.kind \in {"completion", "submitting"} =>
           Gentle(Rest) /\ Settled(Rest) /\ Rest \in Seq(Frames)
  BY StackFacts, GentleStack
<1>2. ASSUME Kept, Gentle(stack'), Settled(stack'), stack' \in Seq(Frames),
             UNCHANGED <<initialReload, traits, elementTraits, mainQueue>>,
             UNCHANGED blocks
      PROVE  Still /\ TraitsStill
  BY <1>2 DEF Still, NoopTaken, TraitsStill
<1>3. CASE CompletionReturns
  <2>1. Kept
    BY <1>3, CompletionStep
  <2>2. /\ stack # <<>> /\ Top.kind = "completion"
        /\ stack' = Push(Checking(RetrySync), Rest) \/ stack' = Rest
        /\ UNCHANGED <<initialReload, traits, elementTraits, mainQueue>>
        /\ UNCHANGED blocks
    <3>1. Rest \in Seq(Frames)
      BY <1>1, <1>3 DEF CompletionReturns, Inside, Top
    <3>2. QED
      BY <1>3, <3>1 DEF CompletionReturns, Inside, Top, StartCheck, Push
  <2>3. RetrySync \in RetryItems
    BY DEF RetryItems
  <2>4. Gentle(stack') /\ Settled(stack') /\ stack' \in Seq(Frames)
    BY <1>1, <2>2, <2>3, GentlePush, GentleFrames
  <2>5. QED
    BY <1>2, <2>1, <2>2, <2>4
<1>4. ASSUME NEW u \in Updates, AnimationsEnd(u) PROVE Still /\ TraitsStill
  <2>1. Kept
    BY <1>4, AnimationsStep
  <2>2. /\ stack = <<>> /\ stack' = Push(Completion(u), stack)
        /\ UNCHANGED <<initialReload, traits, elementTraits, mainQueue>>
        /\ UNCHANGED blocks
    BY <1>4 DEF AnimationsEnd, Push
  <2>3. Gentle(stack') /\ Settled(stack') /\ stack' \in Seq(Frames)
    BY <1>1, <2>2, GentlePush, GentleFrames
  <2>4. QED
    BY <1>2, <2>1, <2>2, <2>3
<1>5. ASSUME NEW empty \in BOOLEAN, NEW wait \in BOOLEAN, Latch(empty, wait), ~initialReload
      PROVE  Still /\ TraitsStill
  <2>1. /\ Kept
        /\ \E w \in Updates : stack' = Push(Completion(w), Rest)
        /\ UNCHANGED <<elementTraits, initialReload, traits, blocks, mainQueue>>
    BY <1>5, SkipStep
  <2>2. stack # <<>> /\ Top.kind = "submitting"
    BY <1>5 DEF Latch, Inside, Top
  <2>3. Gentle(stack') /\ Settled(stack') /\ stack' \in Seq(Frames)
    BY <1>1, <2>1, <2>2, GentlePush, GentleFrames
  <2>4. QED
    BY <1>2, <2>1, <2>3
<1>6. QED
  BY <1>3, <1>4, <1>5

LEMMA StillEditing ==
  ASSUME PipelineOK, DispatchRun \/ Uncount \/ LeaveGroup \/ BringRetryToMain
  PROVE  Still /\ TraitsStill
<1> USE DEF dataVars, viewVars, updateVars, traitVars
<1>1. Quiet /\ Gentle(stack)
  BY QuietRest, GentleStack
<1>2. UNCHANGED stack /\ UNCHANGED blocks /\ UNCHANGED dataVars
  BY DEF DispatchRun, Uncount, LeaveGroup, BringRetryToMain
<1>3. \/ UNCHANGED mainQueue
      \/ \E i \in {RunItem, TraitsChanged} \cup RetryItems : mainQueue' = Append(mainQueue, i)
  <2>1. CASE DispatchRun
    BY <2>1 DEF DispatchRun
  <2>2. CASE Uncount \/ LeaveGroup
    BY <2>2 DEF Uncount, LeaveGroup
  <2>3. CASE BringRetryToMain
    <3>1. editingQueue \in Seq(EditItems) /\ editingQueue # <<>>
      BY <2>3 DEF BringRetryToMain, PipelineOK, TypeOK, EditItems
    <3>2. Head(editingQueue) \in EditItems
      BY <3>1, Popped
    <3>3. Head(editingQueue) \in RetryItems
      BY <2>3, <3>1, <3>2, EditKinds DEF BringRetryToMain, EditingUpdate, EditingItem, EditItems
    <3>4. QED
      BY <2>3, <3>3 DEF BringRetryToMain, EditingItem
  <2>4. QED
    BY <2>1, <2>2, <2>3
<1>4. TraitsChanged \in Items(mainQueue) => TraitsChanged \in Items(mainQueue')
  <2>1. CASE UNCHANGED mainQueue
    BY <2>1
  <2>2. ASSUME NEW i \in {RunItem, TraitsChanged} \cup RetryItems,
               mainQueue' = Append(mainQueue, i)
        PROVE  Items(mainQueue') = Items(mainQueue) \cup {i}
    <3>1. mainQueue \in Seq({RunItem, TraitsChanged} \cup RetryItems)
      BY DEF PipelineOK, TypeOK
    <3>2. QED
      BY <2>2, <3>1, Appended
  <2>3. QED
    BY <1>3, <2>1, <2>2
<1>5. QED
  BY <1>1, <1>2, <1>4, StillParts DEF NoopTaken, TraitsStill

\* The two steps that bring a change of the traits to main are still too.
LEMMA StillEnvironment ==
  ASSUME PipelineOK,
         EnvironmentDidChange \/ \E onMain \in BOOLEAN : EnvironmentChange(onMain)
  PROVE  Still
<1> USE DEF dataVars, viewVars, updateVars
<1>1. /\ Quiet /\ stack \in Seq(Frames) /\ Gentle(stack)
      /\ stack = <<>> => Settled(stack)
  BY QuietClient, QuietRest, StackFacts, GentleStack
<1>2. CASE EnvironmentDidChange
  <2>1. /\ stack = <<>>
        /\ stack' = Push(Waiting(TraitsItem, pendingMap), stack) \/ stack' = stack
        /\ UNCHANGED <<dataVars, blocks>>
    BY <1>2 DEF EnvironmentDidChange, MainItem, Push
  <2>2. Gentle(stack') /\ Settled(stack')
    BY <1>1, <2>1, GentlePush, GentleFrames
  <2>3. QED
    BY <1>1, <2>1, <2>2, StillParts DEF NoopTaken
<1>3. ASSUME NEW onMain \in BOOLEAN, EnvironmentChange(onMain) PROVE Still
  <2>1. UNCHANGED <<mapVars, initialReload, blocks>>
    BY <1>3 DEF EnvironmentChange
  <2>2. stack' = Push(Waiting(TraitsItem, pendingMap), stack) \/ stack' = stack
    BY <1>1, <1>3 DEF EnvironmentChange, Push
  <2>3. Gentle(stack') /\ (Settled(stack') \/ stack' = stack)
    BY <1>1, <2>2, GentlePush, GentleFrames
  <2>4. QED
    BY <1>1, <2>1, <2>3, StillParts DEF NoopTaken
<1>4. QED
  BY <1>2, <1>3

-----------------------------------------------------------------------------
(* The order of the updates, and their maps. *)

LEMMA BeforeOnWay ==
  ASSUME PipelineOK, NEW u \in Updates, NEW v \in Updates
  PROVE  /\ Follows(u, v, deferred) => Held(u) /\ Held(v)
         /\ Follows(UpdateItem(u), UpdateItem(v), blocks) => Blocked(u) /\ Blocked(v)
         /\ Follows(UpdateItem(u), UpdateItem(v), editingQueue) => Queued(u) /\ Queued(v)
         /\ Fresh(u) => Queued(u)
<1>1. /\ deferred \in Seq(Updates) /\ blocks \in Seq(BlockItems)
      /\ editingQueue \in Seq(EditItems)
  BY DEF PipelineOK, TypeOK, BlockItems, EditItems
<1>2. Follows(u, v, deferred) => Held(u) /\ Held(v)
  BY <1>1, InItems DEF Held
<1>3. Follows(UpdateItem(u), UpdateItem(v), blocks) => Blocked(u) /\ Blocked(v)
  BY <1>1, InItems DEF Blocked
<1>4. Follows(UpdateItem(u), UpdateItem(v), editingQueue) => Queued(u) /\ Queued(v)
  BY <1>1, InItems DEF Queued
<1>5. Items(FreshQueue) \subseteq Items(editingQueue)
  <2>1. editing # "idle" => Items(Tail(editingQueue)) \subseteq Items(editingQueue)
    BY <1>1, EditedUpdate, Popped
  <2>2. QED
    BY <2>1 DEF FreshQueue
<1>6. QED
  BY <1>2, <1>3, <1>4, <1>5 DEF Fresh, Queued

LEMMA OrderKept ==
  ASSUME PipelineOK, OrderOK, Kept
  PROVE  OrderOK'
<1>1. /\ pendingMap' = pendingMap /\ visibleMap' = visibleMap /\ mapOf' = mapOf
      /\ deferred' = deferred /\ EditKept /\ BlocksKept
  BY DEF Kept
<1>2. ASSUME NEW u \in Updates PROVE Way(u)' <=> Way(u)
  BY <1>1 DEF EditKept, BlocksKept, Way, Held
<1>3. ASSUME NEW u \in Updates, NEW v \in Updates PROVE Before(u, v)' => Before(u, v)
  BY <1>1 DEF EditKept, BlocksKept, Before, Held
<1>4. QED
  BY <1>1, <1>2, <1>3 DEF OrderOK

LEMMA OrderReplaced ==
  ASSUME PipelineOK, OrderOK, Quiet, MakeMap, visibleMap' = pendingMap',
         \A u \in Updates : ~Way(u)
  PROVE  OrderOK'
<1>1. /\ pendingMap' = pendingMap + 1 /\ visibleMap' = pendingMap' /\ mapOf' = mapOf
      /\ deferred' = deferred /\ EditKept /\ BlocksKept
      /\ pendingMap \in Nat /\ \A u \in Updates : mapOf[u] \in Nat
  BY MadeMap DEF Quiet, PipelineOK, TypeOK, Maps
<1>2. ASSUME NEW u \in Updates PROVE ~Way(u)'
  BY <1>1 DEF EditKept, BlocksKept, Way, Held
<1>3. ASSUME NEW u \in Updates, NEW v \in Updates PROVE Before(u, v)' => Before(u, v)
  BY <1>1 DEF EditKept, BlocksKept, Before, Held
<1>4. ASSUME NEW u \in Updates, NEW v \in Updates, Before(u, v)'
      PROVE  mapOf'[u] <= mapOf'[v]
  BY <1>1, <1>3, <1>4 DEF OrderOK
<1>5. ASSUME NEW u \in Updates PROVE mapOf'[u] <= pendingMap'
  <2>1. mapOf[u] <= pendingMap
    BY DEF OrderOK
  <2>2. QED
    BY <1>1, <2>1
<1>6. /\ visibleMap' <= pendingMap'
      /\ \A m \in Maps : ~(visibleMap' < m /\ m <= pendingMap')
  BY <1>1 DEF Maps
<1>7. QED
  BY <1>2, <1>4, <1>5, <1>6 DEF OrderOK

LEMMA OrderLatched ==
  ASSUME PipelineOK, OrderOK, NEW w \in Updates, Latched(w)
  PROVE  OrderOK' /\ pendingMap <= pendingMap' /\ mapOf'[w] = pendingMap'
<1>1. /\ EditGains(w) /\ BlocksKept /\ ~Way(w) /\ ~Queued(w) /\ deferred' = deferred
      /\ visibleMap' = visibleMap
      /\ pendingMap' = pendingMap \/ MakeMap
      /\ mapOf' = [mapOf EXCEPT ![w] = pendingMap']
  BY DEF Latched
<1>2. /\ pendingMap \in Nat /\ visibleMap \in Nat /\ mapOf \in [Updates -> Maps]
      /\ \A u \in Updates : mapOf[u] \in Nat
  BY DEF PipelineOK, TypeOK, Maps
<1>3. /\ pendingMap' \in Nat /\ pendingMap <= pendingMap'
      /\ pendingMap' = pendingMap \/ pendingMap' = pendingMap + 1
  BY <1>1, <1>2, MadeMap DEF PipelineOK
<1>4. mapOf'[w] = pendingMap' /\ \A u \in Updates : u # w => mapOf'[u] = mapOf[u]
  BY <1>1, <1>2
<1>5. ASSUME NEW u \in Updates PROVE Way(u)' <=> Way(u) \/ u = w
  BY <1>1 DEF EditGains, BlocksKept, Way, Held
<1>6. ASSUME NEW u \in Updates, NEW v \in Updates, Before(u, v)', u # v
      PROVE  u # w /\ (Before(u, v) \/ v = w)
  <2>1. Before(u, v) \/ v = w
    BY <1>1, <1>6 DEF EditGains, BlocksKept, Before, Held
  <2>2. ASSUME u = w PROVE FALSE
    <3>1. Before(w, v)
      BY <1>6, <2>1, <2>2
    <3>2. QED
      BY <1>1, <3>1, BeforeOnWay DEF Before, Way
  <2>3. QED
    BY <2>1, <2>2
<1>7. ASSUME NEW u \in Updates PROVE mapOf[u] <= pendingMap /\ (Way(u) => visibleMap <= mapOf[u])
  BY DEF OrderOK
<1>8. visibleMap <= pendingMap
  BY DEF OrderOK
<1>9. ASSUME NEW u \in Updates, NEW v \in Updates, Before(u, v)'
      PROVE  mapOf'[u] <= mapOf'[v]
  <2>1. CASE u = v
    BY <1>2, <1>3, <1>4, <2>1
  <2>2. CASE u # v /\ v = w
    BY <1>2, <1>3, <1>4, <1>7, <2>2
  <2>3. CASE u # v /\ v # w
    <3>1. Before(u, v) /\ u # w
      BY <1>6, <1>9, <2>3
    <3>2. mapOf[u] <= mapOf[v]
      BY <3>1 DEF OrderOK
    <3>3. QED
      BY <1>4, <2>3, <3>1, <3>2
  <2>4. QED
    BY <2>1, <2>2, <2>3
<1>10. ASSUME NEW u \in Updates
       PROVE  mapOf'[u] <= pendingMap' /\ (Way(u)' => visibleMap' <= mapOf'[u])
  <2>1. CASE u = w
    BY <1>1, <1>2, <1>3, <1>4, <1>8, <2>1
  <2>2. CASE u # w
    BY <1>1, <1>2, <1>3, <1>4, <1>5, <1>7, <2>2
  <2>3. QED
    BY <2>1, <2>2
<1>11. ASSUME NEW m \in Maps, visibleMap' < m, m <= pendingMap'
       PROVE  \E u \in Updates : Way(u)' /\ mapOf'[u] = m
  <2>1. CASE m = pendingMap'
    BY <1>4, <1>5, <2>1
  <2>2. CASE m # pendingMap'
    <3>1. visibleMap < m /\ m <= pendingMap
      BY <1>1, <1>2, <1>3, <1>11, <2>2 DEF Maps
    <3>2. PICK u \in Updates : Way(u) /\ mapOf[u] = m
      BY <3>1 DEF OrderOK
    <3>3. u # w
      BY <1>1, <3>2
    <3>4. QED
      BY <1>4, <1>5, <3>2, <3>3
  <2>3. QED
    BY <2>1, <2>2
<1>12. visibleMap' <= pendingMap'
  BY <1>1, <1>2, <1>3, <1>8
<1>13. QED
  BY <1>3, <1>4, <1>9, <1>10, <1>11, <1>12 DEF OrderOK

\* The first update on the way is displayed: its map is the one that is
\* displayed, or the next one.
LEMMA OrderDisplayed ==
  ASSUME PipelineOK, OrderOK, NEW w \in Updates, Way(w), visibleMap' = mapOf[w],
         UNCHANGED <<pendingMap, mapOf>>,
         \A u \in Updates : Way(u)' <=> Way(u) /\ u # w,
         \A u \in Updates : Way(u)' => Before(w, u),
         \A u, v \in Updates : Before(u, v)' => Before(u, v)
  PROVE  /\ OrderOK' /\ visibleMap <= mapOf[w]
         /\ visibleMap' = visibleMap \/ (visibleMap' = visibleMap + 1 /\ visibleMap < pendingMap)
<1>1. /\ pendingMap \in Maps /\ visibleMap \in Maps /\ mapOf \in [Updates -> Maps]
      /\ Maps \subseteq Nat /\ pendingMap' = pendingMap /\ mapOf' = mapOf
  BY DEF PipelineOK, TypeOK, Maps
<1>2. mapOf[w] \in Maps /\ visibleMap <= mapOf[w] /\ mapOf[w] <= pendingMap
  BY <1>1 DEF OrderOK
<1>3. ASSUME NEW u \in Updates, NEW v \in Updates, Before(u, v)'
      PROVE  mapOf'[u] <= mapOf'[v]
  <2>1. Before(u, v)
    BY <1>3
  <2>2. QED
    BY <1>1, <2>1 DEF OrderOK
<1>4. ASSUME NEW u \in Updates
      PROVE  mapOf'[u] <= pendingMap' /\ (Way(u)' => visibleMap' <= mapOf'[u])
  <2>1. mapOf'[u] <= pendingMap'
    BY <1>1 DEF OrderOK
  <2>2. Way(u)' => mapOf[w] <= mapOf[u]
    BY DEF OrderOK
  <2>3. QED
    BY <1>1, <2>1, <2>2
<1>5. ASSUME NEW m \in Maps, visibleMap' < m, m <= pendingMap'
      PROVE  \E u \in Updates : Way(u)' /\ mapOf'[u] = m
  <2>1. visibleMap < m /\ m <= pendingMap
    BY <1>1, <1>2, <1>5
  <2>2. PICK u \in Updates : Way(u) /\ mapOf[u] = m
    BY <2>1 DEF OrderOK
  <2>3. u # w
    BY <1>1, <1>2, <1>5, <2>2
  <2>4. QED
    BY <1>1, <2>2, <2>3
<1>6. OrderOK'
  BY <1>1, <1>2, <1>3, <1>4, <1>5 DEF OrderOK
<1>7. ASSUME visibleMap < mapOf[w] PROVE mapOf[w] = visibleMap + 1 /\ visibleMap < pendingMap
  <2>1. visibleMap + 1 \in Maps /\ visibleMap < visibleMap + 1 /\ visibleMap + 1 <= pendingMap
    BY <1>1, <1>2, <1>7, BoundsAssumption DEF Maps
  <2>2. PICK u \in Updates : Way(u) /\ mapOf[u] = visibleMap + 1
    BY <2>1 DEF OrderOK
  <2>3. mapOf[w] <= mapOf[u]
    <3>1. CASE u = w
      BY <1>1, <3>1
    <3>2. CASE u # w
      <4>1. Before(w, u)
        BY <2>2, <3>2
      <4>2. QED
        BY <4>1 DEF OrderOK
    <3>3. QED
      BY <3>1, <3>2
  <2>4. QED
    BY <1>1, <1>2, <1>7, <2>1, <2>2, <2>3
<1>8. QED
  BY <1>1, <1>2, <1>6, <1>7

LEMMA OrderDelivered ==
  ASSUME PipelineOK, OrderOK, NEW w \in Updates, BlocksLose(w), visibleMap' = mapOf[w],
         deferred = <<>>, UNCHANGED <<pendingMap, mapOf, deferred>>, EditKept
  PROVE  /\ OrderOK' /\ visibleMap <= mapOf[w]
         /\ visibleMap' = visibleMap \/ (visibleMap' = visibleMap + 1 /\ visibleMap < pendingMap)
<1>1. \A u \in Updates : ~Held(u) /\ ~Held(u)'
  BY Empty DEF Held
<1>2. Way(w) /\ ~Fresh(w)
  BY DEF BlocksLose, Way, PipelineOK, TokensOK, OnePlace
<1>3. ASSUME NEW u \in Updates PROVE Way(u)' <=> Way(u) /\ u # w
  BY <1>1, <1>2 DEF BlocksLose, EditKept, Way
<1>4. ASSUME NEW u \in Updates, Way(u)' PROVE Before(w, u)
  BY <1>1, <1>4 DEF BlocksLose, EditKept, Way, Before
<1>5. ASSUME NEW u \in Updates, NEW v \in Updates, Before(u, v)' PROVE Before(u, v)
  BY <1>1, <1>5 DEF BlocksLose, EditKept, Before
<1>6. QED
  BY <1>2, <1>3, <1>4, <1>5, OrderDisplayed

LEMMA OrderConsumed ==
  ASSUME PipelineOK, OrderOK, NEW w \in Updates, HeldLoses(w), visibleMap' = mapOf[w],
         UNCHANGED <<pendingMap, mapOf>>, EditKept, BlocksKept
  PROVE  /\ OrderOK' /\ visibleMap <= mapOf[w]
         /\ visibleMap' = visibleMap \/ (visibleMap' = visibleMap + 1 /\ visibleMap < pendingMap)
<1>1. Way(w) /\ ~Fresh(w) /\ ~Blocked(w) /\ Held(w)
  BY DEF HeldLoses, Way, PipelineOK, TokensOK, OnePlace
<1>2. ASSUME NEW u \in Updates PROVE Way(u)' <=> Way(u) /\ u # w
  BY <1>1 DEF HeldLoses, EditKept, BlocksKept, Way
<1>3. ASSUME NEW u \in Updates, Way(u)' PROVE Before(w, u)
  BY <1>1, <1>3 DEF HeldLoses, EditKept, BlocksKept, Way, Before
<1>4. ASSUME NEW u \in Updates, NEW v \in Updates, Before(u, v)' PROVE Before(u, v)
  BY <1>4 DEF HeldLoses, EditKept, BlocksKept, Before
<1>5. QED
  BY <1>1, <1>2, <1>3, <1>4, OrderDisplayed

\* An update goes on to the place after it.
LEMMA OrderMoved ==
  ASSUME PipelineOK, OrderOK, UNCHANGED <<pendingMap, visibleMap, mapOf>>,
         \A u \in Updates : Way(u)' <=> Way(u),
         \A u, v \in Updates : Before(u, v)' => Before(u, v)
  PROVE  OrderOK'
<1>1. ASSUME NEW u \in Updates, NEW v \in Updates, Before(u, v)'
      PROVE  mapOf'[u] <= mapOf'[v]
  <2>1. Before(u, v)
    BY <1>1
  <2>2. QED
    BY <2>1 DEF OrderOK
<1>2. QED
  BY <1>1 DEF OrderOK

LEMMA OrderDeferred ==
  ASSUME PipelineOK, OrderOK, NEW w \in Updates, BlocksLose(w), HeldGains(w),
         UNCHANGED <<pendingMap, visibleMap, mapOf>>, EditKept
  PROVE  OrderOK'
<1>1. Blocked(w)
  BY DEF BlocksLose
<1>2. ASSUME NEW u \in Updates PROVE Way(u)' <=> Way(u)
  BY <1>1 DEF BlocksLose, HeldGains, EditKept, Way
<1>3. ASSUME NEW u \in Updates, NEW v \in Updates, Before(u, v)' PROVE Before(u, v)
  BY <1>1, <1>3 DEF BlocksLose, HeldGains, EditKept, Before
<1>4. QED
  BY <1>2, <1>3, OrderMoved

LEMMA OrderPushed ==
  ASSUME PipelineOK, OrderOK, NEW w \in Updates, EditPushes(w), BlocksGain(w),
         UNCHANGED <<pendingMap, visibleMap, mapOf, deferred>>
  PROVE  OrderOK'
<1>1. Fresh(w) /\ editingQueue' = editingQueue
  BY DEF EditPushes
<1>2. ASSUME NEW u \in Updates PROVE Way(u)' <=> Way(u)
  BY <1>1 DEF EditPushes, BlocksGain, Way, Held
<1>3. ASSUME NEW u \in Updates, NEW v \in Updates, Before(u, v)' PROVE Before(u, v)
  BY <1>1, <1>3 DEF EditPushes, BlocksGain, Before, Held
<1>4. QED
  BY <1>2, <1>3, OrderMoved

-----------------------------------------------------------------------------
(* The blocks that replace both maps. *)

\* The client that replaces the maps submits nothing before they are replaced,
\* and has a view that takes its updates at once.
Replacer == ReplacesMaps => ~ViewDefers /\ ~SubmitsBetween

BlocksShrink ==
  /\ Items(blocks') \subseteq Items(blocks)
  /\ \A x, y : Follows(x, y, blocks') => Follows(x, y, blocks)

LEMMA Shrinks ==
  ASSUME PipelineOK, blocks' = blocks \/ (blocks # <<>> /\ blocks' = Tail(blocks))
  PROVE  BlocksShrink
<1>1. blocks \in Seq(BlockItems)
  BY DEF PipelineOK, TypeOK, BlockItems
<1>2. CASE blocks' = blocks
  BY <1>2 DEF BlocksShrink
<1>3. CASE blocks # <<>> /\ blocks' = Tail(blocks)
  BY <1>1, <1>3, Popped DEF BlocksShrink
<1>4. QED
  BY <1>2, <1>3

\* A step that pushes no block, submits nothing and clears nothing.
LEMMA ReplaceKept ==
  ASSUME PipelineOK, ReplaceOK, BlocksShrink,
         ViewDefers \/ deferred' = <<>>,
         initialReload => initialReload',
         initialReload' \/ pendingMap' = 0,
         GroupEmpty => GroupEmpty',
         \A u \in Updates : Blocked(u)' => Blocked(u),
         \A f \in Items(stack') :
           \/ f \in Items(stack)
           \/ /\ f.kind \notin {"submitting", "clearing"}
              /\ ~(f.kind = "waiting" /\ f.item.kind = "relayout"),
         \A f, g \in Frames : Next2(f, g, stack') /\ f.kind = "waited" => Next2(f, g, stack),
         Settled(stack') \/ stack' = stack
  PROVE  ReplaceOK'
<1>1. ASSUME NEW f \in Items(blocks'), f.kind = "relayout"
      PROVE  /\ ReplacesMaps /\ initialReload' /\ GroupEmpty'
             /\ \A g \in Items(stack') : g.kind # "submitting"
             /\ \A u \in Updates : ~Follows(f, UpdateItem(u), blocks')
  <2>1. f \in Items(blocks)
    BY <1>1 DEF BlocksShrink
  <2>2. /\ ReplacesMaps /\ initialReload /\ GroupEmpty
        /\ \A g \in Items(stack) : g.kind # "submitting"
        /\ \A u \in Updates : ~Follows(f, UpdateItem(u), blocks)
    BY <1>1, <2>1 DEF ReplaceOK, RelayoutOK
  <2>3. QED
    BY <2>2 DEF BlocksShrink
<1>2. RelayoutOK'
  BY <1>1 DEF RelayoutOK
<1>3. ASSUME NEW f \in Items(stack'), f.kind = "clearing"
      PROVE  /\ ReplacesMaps /\ initialReload'
             /\ \A g \in Items(stack') : g.kind # "submitting"
  BY <1>3 DEF ReplaceOK, ClearingOK
<1>4. ASSUME NEW f \in Frames, NEW g \in Frames, Next2(f, g, stack'),
             f.kind = "waited", g.kind = "clearing"
      PROVE  GroupEmpty'
  <2>1. Next2(f, g, stack)
    BY <1>4
  <2>2. QED
    BY <1>4, <2>1 DEF ReplaceOK, ClearingOK
<1>5. CASE Settled(stack')
  <2>1. ~Inside("clearing")' /\ ~Inside("waited")'
    BY <1>5 DEF Settled, Inside
  <2>2. ClearingOK'
    BY <1>3, <1>4, <2>1 DEF ClearingOK
  <2>3. QED
    BY <1>2, <2>2 DEF ReplaceOK
<1>6. CASE stack' = stack
  <2>1. /\ Inside("clearing")' <=> Inside("clearing")
        /\ Inside("waited")' <=> Inside("waited")
        /\ Rest' = Rest
    BY <1>6 DEF Inside, Rest
  <2>2. ClearingOK'
    BY <1>3, <1>4, <2>1 DEF ClearingOK, ReplaceOK
  <2>3. QED
    BY <1>2, <1>6, <2>2 DEF ReplaceOK
<1>7. QED
  BY <1>5, <1>6

LEMMA GroupKept ==
  ASSUME EditKept
  PROVE  GroupEmpty => GroupEmpty'
BY DEF EditKept, GroupEmpty, Queued

LEMMA ReplaceStill ==
  ASSUME PipelineOK, ReplaceOK, Still
  PROVE  ReplaceOK'
<1>1. BlocksShrink
  BY Shrinks DEF Still, NoopTaken
<1>2. GroupEmpty => GroupEmpty'
  BY GroupKept DEF Still, Kept
<1>3. /\ ViewDefers \/ deferred' = <<>>
      /\ initialReload => initialReload'
      /\ initialReload' \/ pendingMap' = 0
  BY DEF Still, Kept, ReplaceOK
<1>4. \A u \in Updates : Blocked(u)' => Blocked(u)
  BY DEF Still, Kept, BlocksKept
<1>5. \A f \in Items(stack') :
        \/ f \in Items(stack)
        \/ /\ f.kind \notin {"submitting", "clearing"}
           /\ ~(f.kind = "waiting" /\ f.item.kind = "relayout")
  BY DEF Still, Gentle
<1>6. \A f, g \in Frames : Next2(f, g, stack') /\ f.kind = "waited" => Next2(f, g, stack)
  BY DEF Still, Gentle
<1>7. Settled(stack') \/ stack' = stack
  BY DEF Still
<1>8. QED
  BY <1>1, <1>2, <1>3, <1>4, <1>5, <1>6, <1>7, ReplaceKept

\* Client code runs in no method that submits or waits.
LEMMA ClientFrames ==
  ASSUME PipelineOK, ClientRuns
  PROVE  \A g \in Items(stack) : g.kind \notin {"submitting", "waiting"}
<1>1. TAKE g \in Items(stack)
<1>2. stack # <<>>
  BY <1>1, Empty
<1>3. g = Top \/ g \in Items(Rest)
  BY <1>1, <1>2, StackFacts
<1>4. Top.kind \in {"completion", "callback"}
  BY <1>2 DEF ClientRuns, Inside, Top
<1>5. QED
  BY <1>2, <1>3, <1>4, OnlyTop

LEMMA StackPush ==
  ASSUME PipelineOK, ClientRuns, NEW f \in Frames, stack' = Push(f, stack)
  PROVE  /\ Items(stack') = Items(stack) \cup {f} /\ Head(stack') = f /\ stack' # <<>>
         /\ \A x, y : Next2(x, y, stack') => Next2(x, y, stack) \/ x = f
         /\ \A g \in Items(stack) : g.kind \notin {"submitting", "waiting"}
<1>1. stack \in Seq(Frames)
  BY StackFacts
<1>2. PICK s \in Seq(Frames) : s = stack
  BY <1>1
<1>3. Items(Push(f, s)) = Items(s) \cup {f}
  BY Pushed
<1>4. Head(Push(f, s)) = f /\ Push(f, s) # <<>>
  BY Pushed
<1>5. \A x, y : Next2(x, y, Push(f, s)) => Next2(x, y, s) \/ x = f
  BY Pushed
<1>6. QED
  BY <1>2, <1>3, <1>4, <1>5, ClientFrames

LEMMA ReplaceSubmit ==
  ASSUME PipelineOK, ReplaceOK, Replacer,
         NEW w \in Updates, NEW reload \in BOOLEAN, Submit(w, reload)
  PROVE  ReplaceOK'
<1>1. /\ ClientRuns /\ (SubmitsBetween \/ ~Replacing)
      /\ stack' = Push(Submitting(w), stack) /\ initialReload' = (initialReload \/ reload)
      /\ UNCHANGED blocks /\ UNCHANGED editingQueue /\ UNCHANGED <<pendingMap, deferred>>
  BY DEF Submit, Push, editVars, viewVars, mapVars
<1>2. Submitting(w) \in Frames /\ Submitting(w).kind = "submitting"
  BY FrameMembers, FrameFacts
<1>3. /\ Items(stack') = Items(stack) \cup {Submitting(w)}
      /\ Head(stack') = Submitting(w) /\ stack' # <<>>
      /\ \A x, y : Next2(x, y, stack') => Next2(x, y, stack) \/ x = Submitting(w)
  BY <1>1, <1>2, StackPush
<1>4. ASSUME NEW f \in Items(blocks), f.kind = "relayout" PROVE FALSE
  <2>1. blocks \in Seq(BlockItems)
    BY DEF PipelineOK, TypeOK, BlockItems
  <2>2. f = RelayoutItem
    BY <1>4, <2>1, InItems, BlockKinds DEF BlockItems
  <2>3. ReplacesMaps
    BY <1>4 DEF ReplaceOK, RelayoutOK
  <2>4. QED
    BY <1>1, <1>4, <2>2, <2>3 DEF Replacer, Replacing
<1>5. ASSUME NEW f \in Items(stack), f.kind = "clearing" PROVE FALSE
  <2>1. stack \in Seq(Frames)
    BY StackFacts
  <2>2. f = Clearing
    BY <1>5, <2>1, InItems, FrameKinds
  <2>3. ReplacesMaps
    BY <1>5 DEF ReplaceOK, ClearingOK
  <2>4. QED
    BY <1>1, <1>5, <2>2, <2>3 DEF Replacer, Replacing
<1>6. RelayoutOK'
  BY <1>1, <1>4 DEF RelayoutOK
<1>7. ~Inside("clearing")' /\ ~Inside("waited")'
  BY <1>2, <1>3 DEF Inside
<1>8. \A f \in Items(stack') : f.kind # "clearing"
  BY <1>2, <1>3, <1>5
<1>9. ASSUME NEW f \in Frames, NEW g \in Frames, Next2(f, g, stack'),
             f.kind = "waited", g.kind = "clearing"
      PROVE  GroupEmpty'
  BY <1>1, <1>2, <1>3, <1>9 DEF ReplaceOK, ClearingOK, GroupEmpty
<1>10. ClearingOK'
  BY <1>7, <1>8, <1>9 DEF ClearingOK
<1>11. \A f \in Items(stack') : f.kind = "waiting" /\ f.item.kind = "relayout" =>
         ReplacesMaps /\ initialReload'
  BY <1>1, <1>2, <1>3 DEF ReplaceOK
<1>12. QED
  BY <1>1, <1>6, <1>10, <1>11 DEF ReplaceOK

LEMMA ReplaceAsked ==
  ASSUME PipelineOK, ReplaceOK, RelayoutAllNodes \/ ClearData
  PROVE  ReplaceOK' /\ Kept
<1> USE DEF notStack, dataVars, viewVars, updateVars, mapVars
<1>1. /\ ReplacesMaps /\ ClientRuns /\ initialReload /\ UNCHANGED notStack
  BY DEF RelayoutAllNodes, ClearData
<1>2. Kept
  <2>1. Quiet
    BY QuietClient
  <2>2. QED
    BY <1>1, <2>1 DEF Quiet, Kept
<1>3. BlocksShrink /\ (GroupEmpty => GroupEmpty')
  BY <1>1, <1>2, Shrinks, GroupKept DEF Kept
<1>4. pendingMap \in Maps /\ stack \in Seq(Frames)
  BY StackFacts DEF PipelineOK, TypeOK
<1>5. CASE RelayoutAllNodes
  <2>1. PICK f \in Frames : f = Waiting(RelayoutItem, pendingMap) /\ f.kind = "waiting"
    BY <1>4, FrameMembers, FrameFacts
  <2>2. stack' = Push(f, stack)
    BY <1>5, <2>1 DEF RelayoutAllNodes, Push
  <2>3. /\ Items(stack') = Items(stack) \cup {f} /\ Head(stack') = f /\ stack' # <<>>
        /\ \A x, y : Next2(x, y, stack') => Next2(x, y, stack) \/ x = f
    BY <1>1, <2>2, StackPush
  <2>4. RelayoutOK'
    BY <1>1, <1>3, <2>1, <2>3 DEF ReplaceOK, RelayoutOK, BlocksShrink
  <2>5. ~Inside("clearing")' /\ ~Inside("waited")'
    BY <2>1, <2>3 DEF Inside
  <2>6. ASSUME NEW x \in Frames, NEW y \in Frames, Next2(x, y, stack'),
               x.kind = "waited", y.kind = "clearing"
        PROVE  GroupEmpty'
    BY <1>3, <2>1, <2>3, <2>6 DEF ReplaceOK, ClearingOK
  <2>7. ClearingOK'
    BY <1>1, <2>1, <2>3, <2>5, <2>6 DEF ReplaceOK, ClearingOK
  <2>8. QED
    BY <1>1, <1>2, <2>4, <2>7 DEF ReplaceOK
<1>6. CASE ClearData
  <2>1. PICK f \in Frames, c \in Frames :
          /\ f = Waiting(NoopItem, pendingMap) /\ f.kind = "waiting"
          /\ f.item = NoopItem /\ c = Clearing /\ c.kind = "clearing"
    BY <1>4, FrameMembers, FrameFacts
  <2>2. PICK s \in Seq(Frames) : s = Push(c, stack)
    BY <1>4, Pushed
  <2>3. stack' = Push(f, s)
    BY <1>4, <1>6, <2>1, <2>2 DEF ClearData, Push
  <2>4. /\ Items(s) = Items(stack) \cup {c}
        /\ \A x, y : Next2(x, y, s) <=>
             Next2(x, y, stack) \/ (stack # <<>> /\ x = c /\ y = Head(stack))
    <3>1. Items(Push(c, stack)) = Items(stack) \cup {c}
      BY <1>4, Pushed
    <3>2. \A x, y : Next2(x, y, Push(c, stack)) <=>
             Next2(x, y, stack) \/ (stack # <<>> /\ x = c /\ y = Head(stack))
      BY <1>4, Pushed
    <3>3. QED
      BY <2>2, <3>1, <3>2
  <2>5. /\ Items(stack') = Items(s) \cup {f} /\ Head(stack') = f /\ stack' # <<>>
        /\ \A x, y : Next2(x, y, stack') <=>
             Next2(x, y, s) \/ (s # <<>> /\ x = f /\ y = Head(s))
    <3>1. Items(Push(f, s)) = Items(s) \cup {f}
      BY Pushed
    <3>2. Head(Push(f, s)) = f /\ Push(f, s) # <<>>
      BY Pushed
    <3>3. \A x, y : Next2(x, y, Push(f, s)) <=>
             Next2(x, y, s) \/ (s # <<>> /\ x = f /\ y = Head(s))
      BY Pushed
    <3>4. QED
      BY <2>3, <3>1, <3>2, <3>3
  <2>6. \A g \in Items(stack) : g.kind \notin {"submitting", "waiting"}
    BY <1>1, ClientFrames
  <2>7. NoopItem.kind # "relayout"
    BY ItemFacts
  <2>8. RelayoutOK'
    BY <1>1, <1>3, <2>1, <2>4, <2>5 DEF ReplaceOK, RelayoutOK, BlocksShrink
  <2>9. ~Inside("clearing")' /\ ~Inside("waited")'
    BY <2>1, <2>5 DEF Inside
  <2>10. ASSUME NEW x \in Frames, NEW y \in Frames, Next2(x, y, stack'),
                x.kind = "waited", y.kind = "clearing"
         PROVE  GroupEmpty'
    BY <1>3, <2>1, <2>4, <2>5, <2>10 DEF ReplaceOK, ClearingOK
  <2>11. ClearingOK'
    BY <1>1, <2>1, <2>4, <2>5, <2>6, <2>9, <2>10 DEF ClearingOK
  <2>12. QED
    BY <1>1, <1>2, <2>1, <2>4, <2>5, <2>7, <2>8, <2>11 DEF ReplaceOK
<1>7. QED
  BY <1>5, <1>6

LEMMA ReplaceLatched ==
  ASSUME PipelineOK, OrderOK, ReplaceOK, NEW w \in Updates, Latched(w)
  PROVE  ReplaceOK'
<1>1. /\ Inside("submitting") /\ initialReload /\ initialReload' = initialReload
      /\ stack' = Rest \/ stack' = Push(Waiting(NoopItem, pendingMap'), Rest)
      /\ deferred' = deferred /\ blocks' = blocks
  BY DEF Latched
<1>2. stack # <<>> /\ Top.kind = "submitting" /\ Top \in Items(stack)
  BY <1>1, StackFacts DEF Inside, Top
<1>3. \A f \in Items(blocks) : f.kind # "relayout"
  BY <1>2 DEF ReplaceOK, RelayoutOK
<1>4. \A f \in Items(stack) : f.kind # "clearing"
  BY <1>2 DEF ReplaceOK, ClearingOK
<1>5. Rest \in Seq(Frames) /\ Items(Rest) \subseteq Items(stack) /\ Plain(Rest)
      /\ stack' \in Seq(Frames)
  BY <1>2, StackFacts DEF Latched, Calm
<1>6. pendingMap' \in Maps
  <2>1. pendingMap' = pendingMap \/ MakeMap
    BY DEF Latched
  <2>2. QED
    BY <2>1, MadeMap DEF PipelineOK, TypeOK
<1>7. PICK g \in Frames : /\ g = Waiting(NoopItem, pendingMap') /\ g.kind = "waiting"
                          /\ g.item.kind = "noop"
  BY <1>6, FrameMembers, FrameFacts, ItemFacts
<1>8. \A f \in Items(stack') : f \in Items(stack) \/ f = g
  <2>1. Items(Push(g, Rest)) = Items(Rest) \cup {g}
    BY <1>5, Pushed
  <2>2. QED
    BY <1>1, <1>5, <1>7, <2>1
<1>9. \A f \in Items(stack') : f.kind # "clearing"
  BY <1>4, <1>7, <1>8
<1>10. RelayoutOK'
  BY <1>1, <1>3 DEF RelayoutOK
<1>11. ASSUME NEW f \in Frames, NEW y \in Frames, Next2(f, y, stack') PROVE y.kind # "clearing"
  BY <1>5, <1>9, <1>11, InItems
<1>12. stack' # <<>> => Head(stack') \in Items(stack')
  BY <1>5, InItems
<1>13. ~Inside("clearing")'
  BY <1>9, <1>12 DEF Inside
<1>14. ~Inside("waited")'
  <2>1. Head(Push(g, Rest)) = g
    BY <1>5, Pushed
  <2>2. QED
    BY <1>1, <1>5, <1>7, <2>1 DEF Plain, Inside
<1>15. ClearingOK'
  BY <1>9, <1>11, <1>13, <1>14 DEF ClearingOK
<1>16. QED
  BY <1>1, <1>7, <1>8, <1>10, <1>15 DEF ReplaceOK

\* Main begins to run the blocks, one that replaces the maps among them: no
\* update is queued, and the block is the last.
LEMMA ReplaceEndWait ==
  ASSUME PipelineOK, ReplaceOK, EndWait
  PROVE  ReplaceOK'
<1> USE DEF dataVars, viewVars, updateVars, mapVars, editVars
<1>1. /\ stack # <<>> /\ Top.kind = "waiting" /\ GroupEmpty
      /\ blocks' = Append(blocks, Top.item)
      /\ UNCHANGED <<dataVars, editVars>>
  BY DEF EndWait, Inside, Top
<1>2. /\ Top \in Frames /\ Top \in Items(stack) /\ Rest \in Seq(Frames)
      /\ Items(Rest) \subseteq Items(stack)
      /\ Rest # <<>> => Head(Rest).kind \notin {"submitting", "waiting", "waited"}
  BY <1>1, StackFacts DEF Below
<1>3. PICK i \in {NoopItem, RelayoutItem, TraitsItem}, m \in Maps : Top = Waiting(i, m)
  BY <1>1, <1>2, FrameKinds
<1>4. Top.item = i /\ i \in BlockItems
  BY <1>3, FrameFacts DEF BlockItems
<1>5. PICK r \in Frames, q \in Frames : /\ r = Running /\ r.kind = "running"
                                        /\ q = Waited(m) /\ q.kind = "waited"
  BY FrameMembers, FrameFacts
<1>6. stack' = Push(r, Push(q, Rest)) \/ stack' = Push(r, Rest)
  <2>1. Top.item = i /\ Top.from = m
    BY <1>3, FrameFacts
  <2>2. CASE i = NoopItem
    BY <1>2, <1>5, <2>1, <2>2 DEF EndWait, Push
  <2>3. CASE i # NoopItem
    BY <1>2, <1>5, <2>1, <2>3 DEF EndWait, Push
  <2>4. QED
    BY <2>2, <2>3
<1>7. Push(q, Rest) \in Seq(Frames)
  BY <1>2, Pushed
<1>8. ASSUME NEW s \in Seq(Frames)
      PROVE  Items(Push(r, s)) = Items(s) \cup {r} /\ Head(Push(r, s)) = r
  BY Pushed
<1>9. ASSUME NEW s \in Seq(Frames), NEW x, NEW y, Next2(x, y, Push(r, s))
      PROVE  Next2(x, y, s) \/ x = r
  BY <1>9, Pushed
<1>10. Items(Push(q, Rest)) = Items(Rest) \cup {q}
  BY <1>2, Pushed
<1>11. ASSUME NEW x, NEW y, Next2(x, y, Push(q, Rest)) PROVE Next2(x, y, Rest) \/ x = q
  BY <1>2, <1>11, Pushed
<1>12. /\ \A f \in Items(stack') : f \in Items(Rest) \/ f = r \/ f = q
       /\ Head(stack') = r
  BY <1>2, <1>6, <1>7, <1>8, <1>10
<1>13. /\ blocks \in Seq(BlockItems)
       /\ Items(blocks') = Items(blocks) \cup {i}
       /\ \A x, y : Follows(x, y, blocks') <=>
            Follows(x, y, blocks) \/ (x \in Items(blocks) /\ y = i)
  <2>1. blocks \in Seq(BlockItems)
    BY DEF PipelineOK, TypeOK, BlockItems
  <2>2. QED
    BY <1>1, <1>4, <2>1, Appended
<1>14. \A u \in Updates : UpdateItem(u) # i
  BY ItemFacts
<1>15. \A g \in Items(stack') : g.kind # "submitting"
  BY <1>1, <1>5, <1>12, OnlyTop
<1>16. /\ initialReload' = initialReload /\ pendingMap' = pendingMap /\ deferred' = deferred
       /\ GroupEmpty'
  BY <1>1 DEF GroupEmpty
<1>17. ASSUME NEW f \in Items(blocks'), f.kind = "relayout"
       PROVE  /\ ReplacesMaps /\ initialReload'
              /\ \A u \in Updates : ~Follows(f, UpdateItem(u), blocks')
  <2>1. CASE f \in Items(blocks)
    BY <1>13, <1>14, <1>16, <1>17, <2>1 DEF ReplaceOK, RelayoutOK
  <2>2. CASE f \notin Items(blocks)
    <3>1. f = i
      BY <1>13, <2>2
    <3>2. ReplacesMaps /\ initialReload'
      BY <1>1, <1>2, <1>4, <1>16, <1>17, <3>1 DEF ReplaceOK
    <3>3. \A u \in Updates : ~Follows(f, UpdateItem(u), blocks)
      BY <1>13, <2>2, InItems
    <3>4. QED
      BY <1>13, <1>14, <3>2, <3>3
  <2>3. QED
    BY <2>1, <2>2
<1>18. RelayoutOK'
  BY <1>15, <1>16, <1>17 DEF RelayoutOK
<1>19. ClearingOK'
  <2>1. ASSUME NEW f \in Items(stack'), f.kind = "clearing" PROVE ReplacesMaps /\ initialReload'
    BY <1>2, <1>5, <1>12, <1>16, <2>1 DEF ReplaceOK, ClearingOK
  <2>2. ~Inside("clearing")' /\ ~Inside("waited")'
    BY <1>5, <1>12 DEF Inside
  <2>3. QED
    BY <1>15, <1>16, <2>1, <2>2 DEF ClearingOK
<1>20. \A f \in Items(stack') : f.kind = "waiting" /\ f.item.kind = "relayout" =>
         ReplacesMaps /\ initialReload'
  BY <1>2, <1>5, <1>12, <1>16 DEF ReplaceOK
<1>21. QED
  BY <1>16, <1>18, <1>19, <1>20 DEF ReplaceOK

\* Main comes back to clearData after the blocks have run.
LEMMA ReplaceReturn ==
  ASSUME PipelineOK, ReplaceOK, WaitReturns \/ QueueDrained
  PROVE  ReplaceOK'
<1> USE DEF notStack, dataVars, viewVars, updateVars, mapVars, editVars
<1>1. /\ stack # <<>> /\ stack' = Rest /\ UNCHANGED notStack
      /\ (Top.kind = "waited" \/ (Top.kind = "running" /\ blocks = <<>>))
  BY DEF WaitReturns, QueueDrained, Inside, Top
<1>2. /\ stack \in Seq(Frames) /\ Rest \in Seq(Frames) /\ Items(Rest) \subseteq Items(stack)
      /\ Top \in Frames
      /\ Rest # <<>> => Below(Top, Head(Rest)) /\ Head(Rest) \in Frames
  BY <1>1, StackFacts, Popped
<1>3. /\ \A x, y : Next2(x, y, Rest) => Next2(x, y, stack)
      /\ Rest # <<>> => Next2(Top, Head(Rest), stack)
  BY <1>1, <1>2, Popped DEF Top, Rest
<1>4. /\ initialReload' = initialReload /\ pendingMap' = pendingMap /\ deferred' = deferred
      /\ blocks' = blocks /\ (GroupEmpty' <=> GroupEmpty)
      /\ \A u \in Updates : Blocked(u)' <=> Blocked(u)
  BY <1>1 DEF GroupEmpty, Blocked
<1>5. RelayoutOK'
  BY <1>1, <1>2, <1>4 DEF ReplaceOK, RelayoutOK
<1>6. ASSUME NEW f \in Items(Rest), f.kind = "clearing"
      PROVE  ReplacesMaps /\ initialReload' /\ \A g \in Items(Rest) : g.kind # "submitting"
  BY <1>2, <1>4, <1>6 DEF ReplaceOK, ClearingOK
<1>7. ASSUME NEW f \in Frames, NEW g \in Frames, Next2(f, g, Rest),
             f.kind = "waited", g.kind = "clearing"
      PROVE  GroupEmpty'
  <2>1. Next2(f, g, stack)
    BY <1>3, <1>7
  <2>2. QED
    BY <1>4, <1>7, <2>1 DEF ReplaceOK, ClearingOK
<1>8. ASSUME Inside("clearing")' PROVE GroupEmpty' /\ \A u \in Updates : ~Blocked(u)'
  <2>1. Rest # <<>> /\ Head(Rest).kind = "clearing"
    BY <1>1, <1>8 DEF Inside
  <2>2. Top.kind = "waited"
    BY <1>1, <1>2, <2>1 DEF Below
  <2>3. GroupEmpty
    BY <1>2, <1>3, <2>1, <2>2 DEF ReplaceOK, ClearingOK
  <2>4. Inside("waited")
    BY <1>1, <2>2 DEF Inside, Top
  <2>5. \A u \in Updates : ~Blocked(u)
    BY <2>1, <2>4 DEF ReplaceOK, ClearingOK
  <2>6. QED
    BY <1>4, <2>3, <2>5
<1>9. ASSUME Inside("waited")' PROVE \A u \in Updates : ~Blocked(u)'
  <2>1. Rest # <<>> /\ Head(Rest).kind = "waited"
    BY <1>1, <1>9 DEF Inside
  <2>2. blocks = <<>>
    BY <1>1, <1>2, <2>1 DEF Below
  <2>3. QED
    BY <1>4, <2>2, Empty DEF Blocked
<1>10. ClearingOK'
  BY <1>1, <1>6, <1>7, <1>8, <1>9 DEF ClearingOK
<1>11. QED
  BY <1>1, <1>2, <1>4, <1>5, <1>10 DEF ReplaceOK

\* The editing thread pushes an update: the group is not empty.
LEMMA ReplacePushed ==
  ASSUME PipelineOK, ReplaceOK, NEW w \in Updates, EditPushes(w),
         UNCHANGED <<pendingMap, deferred, initialReload, stack>>,
         blocks' = Append(blocks, UpdateItem(w))
  PROVE  ReplaceOK'
<1>1. ~GroupEmpty /\ editingQueue' = editingQueue
  BY BeforeOnWay DEF EditPushes, GroupEmpty, Queued
<1>2. /\ blocks \in Seq(BlockItems) /\ UpdateItem(w) \in BlockItems
      /\ UpdateItem(w).kind = "update"
  BY ItemFacts DEF PipelineOK, TypeOK, BlockItems, UpdateItems
<1>3. Items(blocks') = Items(blocks) \cup {UpdateItem(w)}
  BY <1>2, Appended
<1>4. \A f \in Items(blocks') : f.kind # "relayout"
  BY <1>1, <1>2, <1>3 DEF ReplaceOK, RelayoutOK
<1>5. RelayoutOK'
  BY <1>4 DEF RelayoutOK
<1>6. stack' = stack /\ Rest' = Rest
  BY DEF Rest
<1>7. ~Inside("clearing")
  BY <1>1 DEF ReplaceOK, ClearingOK
<1>8. ASSUME Inside("waited"), Rest # <<>>, Head(Rest).kind = "clearing" PROVE FALSE
  <2>1. stack # <<>> /\ Top.kind = "waited"
    BY <1>8 DEF Inside, Top
  <2>2. stack \in Seq(Frames) /\ Top \in Frames /\ Rest \in Seq(Frames)
    BY <2>1, StackFacts
  <2>3. Head(Rest) \in Frames /\ Next2(Top, Head(Rest), stack)
    BY <1>8, <2>1, <2>2, Popped DEF Top, Rest
  <2>4. QED
    BY <1>1, <1>8, <2>1, <2>2, <2>3 DEF ReplaceOK, ClearingOK
<1>9. \A f, g \in Frames :
        Next2(f, g, stack) /\ f.kind = "waited" /\ g.kind = "clearing" => FALSE
  BY <1>1 DEF ReplaceOK, ClearingOK
<1>10. /\ ~Inside("clearing")'
       /\ ~(Inside("waited")' /\ Rest' # <<>> /\ Head(Rest').kind = "clearing")
  BY <1>6, <1>7, <1>8 DEF Inside
<1>11. ClearingOK'
  BY <1>6, <1>9, <1>10 DEF ReplaceOK, ClearingOK
<1>12. QED
  BY <1>5, <1>6, <1>11 DEF ReplaceOK

LEMMA ReplaceGentle ==
  ASSUME PipelineOK, ReplaceOK, BlocksShrink, EditKept,
         ViewDefers \/ deferred' = <<>>,
         initialReload => initialReload',
         initialReload' \/ pendingMap' = 0,
         \A u \in Updates : Blocked(u)' => Blocked(u),
         Gentle(stack'), Settled(stack') \/ stack' = stack
  PROVE  ReplaceOK'
<1>1. GroupEmpty => GroupEmpty'
  BY GroupKept
<1>2. \A f \in Items(stack') :
        \/ f \in Items(stack)
        \/ /\ f.kind \notin {"submitting", "clearing"}
           /\ ~(f.kind = "waiting" /\ f.item.kind = "relayout")
  BY DEF Gentle
<1>3. \A f, g \in Frames : Next2(f, g, stack') /\ f.kind = "waited" => Next2(f, g, stack)
  BY DEF Gentle
<1>4. QED
  BY <1>1, <1>2, <1>3, ReplaceKept

\* When a block that replaces the maps runs, or clearData goes on after its
\* wait, no update is on its way.
LEMMA NoneOnWay ==
  ASSUME PipelineOK, ReplaceOK, Replacer,
         \/ Inside("clearing")
         \/ blocks # <<>> /\ Head(blocks).kind = "relayout"
  PROVE  initialReload /\ \A u \in Updates : ~Way(u)
<1>1. /\ ReplacesMaps /\ initialReload /\ GroupEmpty
      /\ \A u \in Updates : ~Blocked(u)
  <2>1. CASE Inside("clearing")
    <3>1. Top \in Items(stack) /\ Top.kind = "clearing"
      BY <2>1, StackFacts DEF Inside, Top
    <3>2. QED
      BY <2>1, <3>1 DEF ReplaceOK, ClearingOK
  <2>2. CASE blocks # <<>> /\ Head(blocks).kind = "relayout"
    <3>1. blocks \in Seq(BlockItems)
      BY DEF PipelineOK, TypeOK, BlockItems
    <3>2. /\ Head(blocks) \in Items(blocks)
          /\ Items(blocks) = Items(Tail(blocks)) \cup {Head(blocks)}
          /\ \A x, y : (x = Head(blocks) /\ y \in Items(Tail(blocks))) => Follows(x, y, blocks)
      BY <2>2, <3>1, Popped
    <3>3. /\ ReplacesMaps /\ initialReload /\ GroupEmpty
          /\ \A u \in Updates : ~Follows(Head(blocks), UpdateItem(u), blocks)
      BY <2>2, <3>2 DEF ReplaceOK, RelayoutOK
    <3>4. \A u \in Updates : UpdateItem(u) # Head(blocks)
      BY <2>2, ItemFacts
    <3>5. QED
      BY <3>2, <3>3, <3>4 DEF Blocked
  <2>3. QED
    BY <2>1, <2>2
<1>2. deferred = <<>>
  BY <1>1 DEF Replacer, ReplaceOK
<1>3. ASSUME NEW u \in Updates PROVE ~Way(u)
  <2>1. ~Queued(u)
    BY <1>1 DEF GroupEmpty, Queued
  <2>2. ~Fresh(u)
    BY <2>1, BeforeOnWay
  <2>3. ~Held(u)
    BY <1>2, Empty DEF Held
  <2>4. QED
    BY <1>1, <2>2, <2>3 DEF Way
<1>4. QED
  BY <1>1, <1>3

LEMMA MapsReplaced ==
  ASSUME MapsOK, Replacer, RunRelayout \/ FinishClear
  PROVE  /\ OrderOK' /\ ReplaceOK' /\ visibleMap = pendingMap
         /\ pendingMap' = pendingMap + 1 /\ visibleMap' = pendingMap'
         /\ Quiet /\ Gentle(stack') /\ UNCHANGED <<mainQueue, traits, mapOf>>
         /\ Settled(stack') \/ stack' = stack
<1> USE DEF updateVars, viewVars, traitVars
<1>1. PipelineOK /\ OrderOK /\ ReplaceOK
  BY DEF MapsOK
<1>2. Quiet /\ Gentle(stack)
  BY <1>1, QuietMain, GentleStack
<1>3. /\ MakeMap /\ visibleMap' = pendingMap' /\ UNCHANGED <<updateVars, viewVars, mainQueue, traits>>
      /\ blocks' = blocks \/ (blocks # <<>> /\ blocks' = Tail(blocks))
  BY DEF RunRelayout, FinishClear, NextBlock
<1>4. \/ Inside("clearing")
      \/ blocks # <<>> /\ Head(blocks).kind = "relayout"
  BY DEF RunRelayout, FinishClear, NextBlock
<1>5. initialReload /\ \A u \in Updates : ~Way(u)
  BY <1>1, <1>4, NoneOnWay
<1>6. OrderOK'
  BY <1>1, <1>2, <1>3, <1>5, OrderReplaced
<1>7. Gentle(stack') /\ (Settled(stack') \/ stack' = stack)
  <2>1. CASE RunRelayout
    BY <1>2, <2>1 DEF RunRelayout
  <2>2. CASE FinishClear
    <3>1. stack # <<>> /\ Top.kind = "clearing" /\ stack' = Rest
      BY <2>2 DEF FinishClear, Inside, Top
    <3>2. QED
      BY <1>1, <3>1, GentleStack
  <2>3. QED
    BY <2>1, <2>2
<1>8. BlocksShrink
  BY <1>1, <1>3, Shrinks
<1>9. EditKept /\ \A u \in Updates : Blocked(u)' => Blocked(u)
  BY <1>2 DEF Quiet, BlocksKept
<1>10. (ViewDefers \/ deferred' = <<>>) /\ initialReload'
  BY <1>1, <1>3, <1>5 DEF ReplaceOK
<1>11. ReplaceOK'
  BY <1>1, <1>7, <1>8, <1>9, <1>10, ReplaceGentle
<1>12. visibleMap = pendingMap
  <2>1. pendingMap \in Maps /\ visibleMap \in Maps /\ Maps \subseteq Nat
    BY <1>1 DEF PipelineOK, TypeOK, Maps
  <2>2. visibleMap <= pendingMap /\ ~(visibleMap < pendingMap)
    BY <1>1, <1>5, <2>1 DEF OrderOK
  <2>3. QED
    BY <2>1, <2>2
<1>13. pendingMap' = pendingMap + 1
  BY <1>3 DEF MakeMap
<1>14. QED
  BY <1>2, <1>3, <1>6, <1>7, <1>11, <1>12, <1>13

LEMMA MapsTraits ==
  ASSUME MapsOK, RunTraits
  PROVE  OrderOK' /\ ReplaceOK' /\ Kept
<1> USE DEF updateVars, viewVars, mapVars
<1>1. PipelineOK /\ OrderOK /\ ReplaceOK
  BY DEF MapsOK
<1>2. Quiet /\ Gentle(stack)
  BY <1>1, QuietMain, GentleStack
<1>3. /\ UNCHANGED <<mapVars, updateVars, viewVars, stack>>
      /\ blocks # <<>> /\ blocks' = Tail(blocks)
  BY DEF RunTraits, NextBlock
<1>4. Kept
  BY <1>2, <1>3 DEF Quiet, Kept
<1>5. OrderOK'
  BY <1>1, <1>4, OrderKept
<1>6. BlocksShrink
  BY <1>1, <1>3, Shrinks
<1>7. EditKept /\ \A u \in Updates : Blocked(u)' => Blocked(u)
  BY <1>2 DEF Quiet, BlocksKept
<1>8. /\ ViewDefers \/ deferred' = <<>>
      /\ initialReload => initialReload'
      /\ initialReload' \/ pendingMap' = 0
  BY <1>1, <1>3 DEF ReplaceOK
<1>9. ReplaceOK'
  BY <1>1, <1>2, <1>3, <1>6, <1>7, <1>8, ReplaceGentle
<1>10. QED
  BY <1>4, <1>5, <1>9

\* What a step that displays an update does.
Displayed(w) ==
  /\ OrderOK' /\ ReplaceOK' /\ visibleMap <= mapOf[w] /\ visibleMap' = mapOf[w]
  /\ visibleMap' = visibleMap \/ (visibleMap' = visibleMap + 1 /\ visibleMap < pendingMap)
  /\ UNCHANGED <<pendingMap, mapOf, traits, elementTraits, mainQueue>>

LEMMA MapsDelivered ==
  ASSUME MapsOK, DeliverAtOnce \/ DeliverAnimated
  PROVE  \E w \in Updates : /\ Displayed(w) /\ BlocksLose(w) /\ Gentle(stack')
                            /\ Head(blocks) = UpdateItem(w)
                            /\ Settled(stack') \/ stack' = stack
<1> USE DEF syncVars, viewVars, traitVars
<1>1. PipelineOK /\ OrderOK /\ ReplaceOK
  BY DEF MapsOK
<1>2. NextBlock("update")
  BY DEF DeliverAtOnce, DeliverAnimated
<1>3. PICK w \in Updates : Head(blocks) = UpdateItem(w) /\ BlocksLose(w)
  BY <1>1, <1>2, BlocksTail
<1>4. Head(blocks).update = w
  BY <1>3, ItemFacts
<1>5. /\ deferred = <<>> /\ visibleMap' = mapOf[w]
      /\ stack' = Push(Completion(w), stack) \/ stack' = stack
      /\ UNCHANGED editVars
      /\ UNCHANGED <<pendingMap, initialReload, mapOf, deferred, traitVars, mainQueue>>
      /\ blocks # <<>> /\ blocks' = Tail(blocks)
  BY <1>4 DEF DeliverAtOnce, DeliverAnimated, Push, NextBlock
<1>6. EditKept
  BY <1>1, <1>5, EditSame
<1>7. /\ OrderOK' /\ visibleMap <= mapOf[w]
      /\ visibleMap' = visibleMap \/ (visibleMap' = visibleMap + 1 /\ visibleMap < pendingMap)
  BY <1>1, <1>3, <1>5, <1>6, OrderDelivered
<1>8. Gentle(stack') /\ (Settled(stack') \/ stack' = stack)
  <2>1. Gentle(stack) /\ stack \in Seq(Frames)
    BY <1>1, GentleStack, StackFacts
  <2>2. Completion(w) \in Frames /\ GentleFrame(Completion(w))
    BY <1>1, GentleFrames
  <2>3. QED
    BY <1>5, <2>1, <2>2, GentlePush
<1>9. BlocksShrink
  BY <1>1, <1>5, Shrinks
<1>10. \A u \in Updates : Blocked(u)' => Blocked(u)
  BY <1>3 DEF BlocksLose
<1>11. /\ ViewDefers \/ deferred' = <<>>
       /\ initialReload => initialReload'
       /\ initialReload' \/ pendingMap' = 0
  BY <1>1, <1>5 DEF ReplaceOK
<1>12. ReplaceOK'
  BY <1>1, <1>6, <1>8, <1>9, <1>10, <1>11, ReplaceGentle
<1>13. Displayed(w)
  BY <1>5, <1>7, <1>12 DEF Displayed
<1>14. QED
  BY <1>3, <1>8, <1>13

LEMMA MapsConsumed ==
  ASSUME MapsOK, ConsumeUpdate
  PROVE  ViewDefers /\ \E w \in Updates : Displayed(w)
<1> USE DEF syncVars, traitVars
<1>1. PipelineOK /\ OrderOK /\ ReplaceOK
  BY DEF MapsOK
<1>2. PICK w \in Updates : HeldLoses(w) /\ visibleMap' = mapOf[w]
  BY <1>1, ConsumeStep
<1>3. /\ UNCHANGED editVars /\ UNCHANGED blocks /\ UNCHANGED stack /\ deferred # <<>>
      /\ UNCHANGED <<pendingMap, initialReload, mapOf, traitVars, mainQueue>>
  BY DEF ConsumeUpdate
<1>4. EditKept /\ BlocksKept /\ Gentle(stack)
  BY <1>1, <1>3, EditSame, BlocksSame, GentleStack
<1>5. /\ OrderOK' /\ visibleMap <= mapOf[w]
      /\ visibleMap' = visibleMap \/ (visibleMap' = visibleMap + 1 /\ visibleMap < pendingMap)
  BY <1>1, <1>2, <1>3, <1>4, OrderConsumed
<1>6. ViewDefers
  BY <1>1, <1>3 DEF ReplaceOK
<1>7. BlocksShrink
  BY <1>1, <1>3, Shrinks
<1>8. ReplaceOK'
  BY <1>1, <1>3, <1>4, <1>6, <1>7, ReplaceGentle DEF BlocksKept, ReplaceOK
<1>9. Displayed(w)
  BY <1>2, <1>3, <1>5, <1>8 DEF Displayed
<1>10. QED
  BY <1>6, <1>9

LEMMA MapsDeferred ==
  ASSUME MapsOK, DeliverDeferred
  PROVE  ViewDefers /\ OrderOK' /\ ReplaceOK' /\ UNCHANGED mapVars
<1>1. PipelineOK /\ OrderOK /\ ReplaceOK
  BY DEF MapsOK
<1>2. PICK w \in Updates : /\ BlocksLose(w) /\ HeldGains(w)
                           /\ UNCHANGED <<mapVars, mapOf, editVars, stack>>
  BY <1>1, DeferStep
<1>3. ViewDefers /\ blocks # <<>> /\ blocks' = Tail(blocks) /\ UNCHANGED initialReload
  BY DEF DeliverDeferred, NextBlock, updateVars
<1>4. EditKept /\ Gentle(stack) /\ BlocksShrink
  BY <1>1, <1>2, <1>3, EditSame, GentleStack, Shrinks
<1>5. OrderOK'
  BY <1>1, <1>2, <1>4, OrderDeferred DEF mapVars
<1>6. initialReload' \/ pendingMap' = 0
  BY <1>1, <1>2, <1>3 DEF ReplaceOK, mapVars
<1>7. \A u \in Updates : Blocked(u)' => Blocked(u)
  BY <1>2 DEF BlocksLose
<1>8. ReplaceOK'
  BY <1>1, <1>2, <1>3, <1>4, <1>6, <1>7, ReplaceGentle
<1>9. QED
  BY <1>2, <1>3, <1>5, <1>8

LEMMA MapsPushed ==
  ASSUME MapsOK, PushUpdate
  PROVE  /\ OrderOK' /\ ReplaceOK'
         /\ \E w \in Updates : /\ BlocksGain(w) /\ blocks' = Append(blocks, UpdateItem(w))
                               /\ UNCHANGED <<mapVars, mapOf, deferred, stack>>
<1>1. PipelineOK /\ OrderOK /\ ReplaceOK
  BY DEF MapsOK
<1>2. PICK w \in Updates : /\ EditPushes(w) /\ BlocksGain(w)
                           /\ blocks' = Append(blocks, UpdateItem(w))
                           /\ UNCHANGED <<mapVars, mapOf, deferred, stack>>
  BY <1>1, PushStep
<1>3. UNCHANGED initialReload
  BY DEF PushUpdate, dataVars, updateVars
<1>4. OrderOK'
  BY <1>1, <1>2, OrderPushed DEF mapVars
<1>5. ReplaceOK'
  BY <1>1, <1>2, <1>3, ReplacePushed DEF mapVars
<1>6. QED
  BY <1>2, <1>4, <1>5

-----------------------------------------------------------------------------
(* The two maps. *)

MapMove ==
  \/ UNCHANGED <<pendingMap, visibleMap>>
  \/ pendingMap' = pendingMap + 1 /\ UNCHANGED visibleMap
  \/ visibleMap < pendingMap /\ visibleMap' = visibleMap + 1 /\ UNCHANGED pendingMap
  \/ /\ visibleMap = pendingMap /\ pendingMap' = pendingMap + 1
     /\ visibleMap' = pendingMap + 1

MapsStep == OrderOK' /\ ReplaceOK' /\ MapMove

LEMMA StillStutter ==
  ASSUME PipelineOK, UNCHANGED vars
  PROVE  Still /\ TraitsStill
<1>1. UNCHANGED <<pendingMap, visibleMap, editingQueue, editing, editingCount,
                  initialReload, mapOf, deferred, traits, elementTraits, blocks,
                  mainQueue, stack>>
  BY DEF vars, mapVars, editVars, updateVars, viewVars, traitVars
<1>2. EditKept /\ BlocksKept /\ Gentle(stack) /\ stack \in Seq(Frames)
  BY <1>1, EditSame, BlocksSame, GentleStack, StackFacts DEF editVars
<1>3. QED
  BY <1>1, <1>2 DEF Still, Kept, NoopTaken, TraitsStill

LEMMA MapsStill ==
  ASSUME MapsOK, Still
  PROVE  MapsStep
BY OrderKept, ReplaceStill DEF MapsOK, MapsStep, MapMove, Still, Kept

\* The steps of a wait keep the maps and their order.
LEMMA WaitKept ==
  ASSUME PipelineOK, EndWait \/ WaitReturns \/ QueueDrained
  PROVE  Kept
<1>1. Quiet
  BY QuietMain
<1>2. UNCHANGED <<pendingMap, visibleMap>>
  BY DEF EndWait, WaitReturns, QueueDrained, notStack, dataVars, mapVars
<1>3. QED
  BY <1>1, <1>2 DEF Quiet, Kept

LEMMA MapsNext ==
  ASSUME MapsOK, Replacer, [Next]_vars
  PROVE  MapsStep
<1>1. PipelineOK /\ OrderOK /\ ReplaceOK
  BY DEF MapsOK
<1>2. CASE Still
  BY <1>2, MapsStill
<1>3. ASSUME Kept, ReplaceOK' PROVE MapsStep
  BY <1>1, <1>3, OrderKept DEF MapsStep, MapMove, Kept
<1>4. ASSUME NEW w \in Updates, Displayed(w) PROVE MapsStep
  BY <1>4 DEF Displayed, MapsStep, MapMove
<1>5. CASE ClientStep
  <2>1. ASSUME NEW u \in Updates, NEW reload \in BOOLEAN, Submit(u, reload) PROVE MapsStep
    BY <1>1, <1>3, <2>1, SubmitStep, ReplaceSubmit
  <2>2. CASE RelayoutAllNodes \/ ClearData
    BY <1>1, <1>3, <2>2, ReplaceAsked
  <2>3. CASE \/ WaitUntilAllUpdatesAreProcessed
             \/ \E c \in Callbacks : OnDidFinishProcessingUpdates(c)
             \/ \E b \in SyncBlocks : OnDidFinishSynchronizing(b)
    BY <1>1, <1>2, <2>3, StillClient
  <2>4. CASE \E onMain \in BOOLEAN : EnvironmentChange(onMain)
    BY <1>1, <1>2, <2>4, StillEnvironment
  <2>5. QED
    BY <1>5, <2>1, <2>2, <2>3, <2>4 DEF ClientStep
<1>6. CASE MainStep
  <2>1. ASSUME NEW empty \in BOOLEAN, NEW wait \in BOOLEAN, Latch(empty, wait) PROVE MapsStep
    <3>1. CASE initialReload
      <4>1. PICK w \in Updates : Latched(w)
        BY <1>1, <2>1, <3>1, LatchStep
      <4>2. OrderOK' /\ ReplaceOK'
        BY <1>1, <4>1, OrderLatched, ReplaceLatched
      <4>3. MapMove
        BY <4>1 DEF Latched, MapMove, MakeMap
      <4>4. QED
        BY <4>2, <4>3 DEF MapsStep
    <3>2. CASE ~initialReload
      BY <1>1, <1>2, <2>1, <3>2, StillCompletion
    <3>3. QED
      BY <3>1, <3>2
  <2>2. CASE CompletionReturns
    BY <1>1, <1>2, <2>2, StillCompletion
  <2>3. CASE \/ CallbackReturns \/ RunNoop \/ FinishCheck
             \/ \E b \in SyncBlocks : RunSyncBlock(b)
             \/ RemoveSyncBlocks \/ RunBlocks \/ Retry
    BY <1>1, <1>2, <2>3, StillMain
  <2>4. CASE EnvironmentDidChange
    BY <1>1, <1>2, <2>4, StillEnvironment
  <2>5. CASE EndWait
    BY <1>1, <1>3, <2>5, WaitKept, ReplaceEndWait
  <2>6. CASE WaitReturns \/ QueueDrained
    BY <1>1, <1>3, <2>6, WaitKept, ReplaceReturn
  <2>7. CASE FinishClear \/ RunRelayout
    BY <2>7, MapsReplaced DEF MapsStep, MapMove
  <2>8. CASE RunTraits
    BY <1>3, <2>8, MapsTraits
  <2>9. CASE DeliverAtOnce \/ DeliverAnimated
    BY <1>4, <2>9, MapsDelivered
  <2>10. CASE DeliverDeferred
    BY <2>10, MapsDeferred DEF MapsStep, MapMove, mapVars
  <2>11. QED
    BY <1>6, <2>1, <2>2, <2>3, <2>4, <2>5, <2>6, <2>7, <2>8, <2>9, <2>10 DEF MainStep
<1>7. CASE ViewStep
  <2>1. CASE ConsumeUpdate
    BY <1>4, <2>1, MapsConsumed
  <2>2. CASE \E u \in Updates : AnimationsEnd(u)
    BY <1>1, <1>2, <2>2, StillCompletion
  <2>3. QED
    BY <1>7, <2>1, <2>2 DEF ViewStep
<1>8. CASE EditingStep
  <2>1. CASE PushUpdate
    BY <2>1, MapsPushed DEF MapsStep, MapMove, mapVars
  <2>2. CASE DispatchRun \/ Uncount \/ LeaveGroup \/ BringRetryToMain
    BY <1>1, <1>2, <2>2, StillEditing
  <2>3. QED
    BY <1>8, <2>1, <2>2 DEF EditingStep
<1>9. CASE UNCHANGED vars
  BY <1>1, <1>2, <1>9, StillStutter
<1>10. QED
  BY <1>5, <1>6, <1>7, <1>8, <1>9 DEF Next

LEMMA MapsInit == Init => MapsOK
<1>1. SUFFICES ASSUME Init PROVE MapsOK
  OBVIOUS
<1>2. PipelineOK
  BY <1>1, PipelineInit
<1>3. /\ deferred = <<>> /\ blocks = <<>> /\ editingQueue = <<>> /\ stack = <<>>
      /\ pendingMap = 0 /\ visibleMap = 0 /\ FreshQueue = <<>>
  BY <1>1 DEF Init, FreshQueue
<1>4. \A u, v \in Updates : ~Before(u, v) /\ ~Way(u)
  BY <1>3, Empty DEF Before, Way, Held, Blocked, Fresh
<1>5. \A u \in Updates : mapOf[u] = 0
  BY <1>1 DEF Init
<1>6. OrderOK
  BY <1>3, <1>4, <1>5 DEF OrderOK, Maps
<1>7. RelayoutOK /\ ClearingOK
  BY <1>3, Empty DEF RelayoutOK, ClearingOK, Inside
<1>8. ReplaceOK
  BY <1>3, <1>7, Empty DEF ReplaceOK
<1>9. QED
  BY <1>2, <1>6, <1>8 DEF MapsOK

\* As long as a client that relayouts all nodes or clears the data submits
\* nothing while that waits, and its view takes updates at once: updates are
\* displayed in the order they were latched in, every map not displayed yet is
\* the map of one that is on its way, and nothing is on its way when both maps
\* are replaced.
THEOREM MapsInvariance ==
  ASSUME Replacer
  PROVE  Spec => []MapsOK
<1>1. MapsOK /\ [Next]_vars => MapsOK'
  <2>1. SUFFICES ASSUME MapsOK, [Next]_vars PROVE MapsOK'
    OBVIOUS
  <2>2. PipelineOK'
    BY <2>1, PipelineNext DEF MapsOK
  <2>3. MapsStep
    BY <2>1, MapsNext
  <2>4. QED
    BY <2>2, <2>3 DEF MapsOK, MapsStep
<1>2. QED
  BY MapsInit, <1>1, PTL DEF Spec

\* ElementMaps: the view displays every map, in order, none skipped and none
\* brought back, and the maps are replaced only while the latest is displayed.
THEOREM RefinesElementMaps ==
  ASSUME Replacer
  PROVE  Spec => ImplementsElementMaps
<1>1. Init => Abstract!Init
  BY DEF Init, Abstract!Init
<1>2. MapsOK /\ [Next]_vars => [Abstract!Next]_Abstract!mapVars
  <2>1. SUFFICES ASSUME MapsOK, [Next]_vars PROVE [Abstract!Next]_Abstract!mapVars
    OBVIOUS
  <2>2. MapMove
    BY <2>1, MapsNext DEF MapsStep
  <2>3. QED
    BY <2>2 DEF MapMove, Abstract!Next, Abstract!Latch, Abstract!Deploy,
                Abstract!Replace, Abstract!mapVars
<1>3. QED
  BY <1>1, <1>2, MapsInvariance, PTL DEF Spec, ImplementsElementMaps, Abstract!Spec

LEMMA RelayoutFinds ==
  ASSUME MapsOK, Replacer
  PROVE  RelayoutFindsMapsEqual
<1>1. SUFFICES ASSUME Inside("running"), blocks # <<>>, Head(blocks) = RelayoutItem
               PROVE  visibleMap = pendingMap
  BY DEF RelayoutFindsMapsEqual
<1>2. Head(blocks).kind = "relayout"
  BY <1>1, ItemFacts
<1>3. PipelineOK /\ OrderOK /\ ReplaceOK
  BY DEF MapsOK
<1>4. \A u \in Updates : ~Way(u)
  BY <1>1, <1>2, <1>3, NoneOnWay
<1>5. pendingMap \in Maps /\ visibleMap \in Maps /\ Maps \subseteq Nat
  BY <1>3 DEF PipelineOK, TypeOK, Maps
<1>6. visibleMap <= pendingMap /\ ~(visibleMap < pendingMap)
  BY <1>3, <1>4, <1>5 DEF OrderOK
<1>7. QED
  BY <1>5, <1>6

\* _relayoutAllNodes finds both maps the same, as its assertion says, in
\* whatever handler or callback the relayout was asked for.
THEOREM RelayoutAlwaysFindsMapsEqual ==
  ASSUME Replacer
  PROVE  Spec => []RelayoutFindsMapsEqual
<1>1. MapsOK => RelayoutFindsMapsEqual
  BY RelayoutFinds
<1>2. QED
  BY <1>1, MapsInvariance, PTL

-----------------------------------------------------------------------------
(* The waits.  From here on the view takes its updates at once: a view that  *)
(* keeps one may display its map after a wait has returned.                  *)

LEMMA MapNumbers ==
  ASSUME PipelineOK
  PROVE  /\ pendingMap \in Nat /\ visibleMap \in Nat /\ pendingMap \in Maps
         /\ visibleMap \in Maps /\ Maps \subseteq Nat
         /\ \A u \in Updates : mapOf[u] \in Nat
         /\ \A f \in Items(stack) : f.kind \in {"waiting", "waited"} => f.from \in Maps
<1>1. /\ pendingMap \in Nat /\ visibleMap \in Nat /\ pendingMap \in Maps
      /\ visibleMap \in Maps /\ Maps \subseteq Nat
      /\ \A u \in Updates : mapOf[u] \in Nat
  BY DEF PipelineOK, TypeOK, Maps
<1>2. ASSUME NEW f \in Items(stack), f.kind \in {"waiting", "waited"} PROVE f.from \in Maps
  <2>1. stack \in Seq(Frames)
    BY StackFacts
  <2>2. f \in Frames
    BY <1>2, <2>1, InItems
  <2>3. CASE f.kind = "waiting"
    BY <2>2, <2>3, FrameKinds, FrameFacts
  <2>4. CASE f.kind = "waited"
    BY <2>2, <2>4, FrameKinds, FrameFacts
  <2>5. QED
    BY <1>2, <2>3, <2>4
<1>3. QED
  BY <1>1, <1>2

\* When the group is empty, every map is displayed or is on the queue.
LEMMA GroupReached ==
  ASSUME MapsOK, ~ViewDefers, GroupEmpty, NEW m \in Maps, m <= pendingMap
  PROVE  Reached(m)
<1>1. PipelineOK /\ OrderOK /\ deferred = <<>>
  BY DEF MapsOK, ReplaceOK
<1>2. visibleMap \in Nat /\ m \in Nat /\ \A u \in Updates : mapOf[u] \in Nat
  BY <1>1, MapNumbers
<1>3. CASE visibleMap < m
  <2>1. PICK u \in Updates : Way(u) /\ mapOf[u] = m
    BY <1>1, <1>3 DEF OrderOK
  <2>2. ~Fresh(u)
    BY <1>1, BeforeOnWay DEF GroupEmpty, Queued
  <2>3. ~Held(u)
    BY <1>1, Empty DEF Held
  <2>4. QED
    BY <1>2, <2>1, <2>2, <2>3 DEF Way, Reached
<1>4. CASE m <= visibleMap
  BY <1>4 DEF Reached
<1>5. QED
  BY <1>2, <1>3, <1>4

\* No map that was displayed or was on the queue is lost.
ReachedKept ==
  /\ pendingMap <= pendingMap' /\ visibleMap <= visibleMap'
  /\ \A m \in Maps : Reached(m) => Reached(m)'

LEMMA WaitsMoved ==
  ASSUME PipelineOK, WaitsOK, ReachedKept, pendingMap' \in Nat, visibleMap' \in Nat,
         \A f \in Items(stack') :
           \/ f \in Items(stack)
           \/ f.kind \notin {"waiting", "waited"}
           \/ f.kind = "waiting" /\ f.from <= pendingMap'
           \/ f.kind = "waited" /\ Reached(f.from)',
         Inside("waited")' => stack' = stack \/ Head(stack').from <= visibleMap'
  PROVE  WaitsOK'
<1>1. /\ pendingMap \in Nat /\ visibleMap \in Nat /\ Maps \subseteq Nat
      /\ \A f \in Items(stack) : f.kind \in {"waiting", "waited"} => f.from \in Maps
  BY MapNumbers
<1>2. ASSUME NEW f \in Items(stack'), f.kind = "waiting" PROVE f.from <= pendingMap'
  <2>1. CASE f \in Items(stack)
    <3>1. f.from <= pendingMap /\ f.from \in Nat
      BY <1>1, <1>2, <2>1 DEF WaitsOK
    <3>2. QED
      BY <1>1, <3>1 DEF ReachedKept
  <2>2. CASE f \notin Items(stack)
    BY <1>2, <2>2
  <2>3. QED
    BY <2>1, <2>2
<1>3. ASSUME NEW f \in Items(stack'), f.kind = "waited" PROVE Reached(f.from)'
  <2>1. CASE f \in Items(stack)
    <3>1. Reached(f.from) /\ f.from \in Maps
      BY <1>1, <1>3, <2>1 DEF WaitsOK
    <3>2. QED
      BY <3>1 DEF ReachedKept
  <2>2. CASE f \notin Items(stack)
    BY <1>3, <2>2
  <2>3. QED
    BY <2>1, <2>2
<1>4. ASSUME Inside("waited")' PROVE Head(stack').from <= visibleMap'
  <2>1. CASE stack' = stack
    <3>1. Inside("waited") /\ stack # <<>> /\ Top.kind = "waited" /\ Head(stack') = Top
      BY <1>4, <2>1 DEF Inside, Top
    <3>2. Top \in Items(stack)
      BY <3>1, StackFacts
    <3>3. Top.from <= visibleMap /\ Top.from \in Nat
      BY <1>1, <3>1, <3>2 DEF WaitsOK
    <3>4. QED
      BY <1>1, <3>1, <3>3 DEF ReachedKept
  <2>2. CASE stack' # stack
    BY <1>4, <2>2
  <2>3. QED
    BY <2>1, <2>2
<1>5. QED
  BY <1>2, <1>3, <1>4 DEF WaitsOK, Top

LEMMA KeptReached ==
  ASSUME PipelineOK, Kept
  PROVE  /\ ReachedKept /\ pendingMap' \in Nat /\ visibleMap' \in Nat
         /\ \A m : Reached(m)' <=> Reached(m)
<1>1. pendingMap \in Nat /\ visibleMap \in Nat
  BY MapNumbers
<1>2. /\ pendingMap' = pendingMap /\ visibleMap' = visibleMap /\ mapOf' = mapOf
      /\ \A u \in Updates : Blocked(u)' <=> Blocked(u)
  BY DEF Kept, BlocksKept
<1>3. \A m : Reached(m)' <=> Reached(m)
  BY <1>2 DEF Reached
<1>4. QED
  BY <1>1, <1>2, <1>3 DEF ReachedKept

LEMMA WaitsGentle ==
  ASSUME PipelineOK, WaitsOK, ReachedKept, pendingMap' \in Nat, visibleMap' \in Nat,
         Gentle(stack'), Settled(stack') \/ stack' = stack
  PROVE  WaitsOK'
<1>1. pendingMap \in Nat
  BY MapNumbers
<1>2. ASSUME NEW f \in Items(stack')
      PROVE  \/ f \in Items(stack)
             \/ f.kind \notin {"waiting", "waited"}
             \/ f.kind = "waiting" /\ f.from <= pendingMap'
  <2>1. \/ f \in Items(stack)
        \/ f.kind \in {"running", "callback", "checking", "synchronizing", "completion"}
        \/ f.kind = "waiting" /\ f.from = pendingMap
    BY <1>2 DEF Gentle
  <2>2. CASE f.kind = "waiting" /\ f.from = pendingMap
    BY <1>1, <2>2 DEF ReachedKept
  <2>3. QED
    BY <2>1, <2>2
<1>3. Inside("waited")' => stack' = stack
  BY DEF Inside, Settled
<1>4. QED
  BY <1>2, <1>3, WaitsMoved

LEMMA WaitsStill ==
  ASSUME PipelineOK, WaitsOK, Still
  PROVE  WaitsOK'
<1>1. Kept /\ Gentle(stack') /\ (Settled(stack') \/ stack' = stack)
  BY DEF Still
<1>2. QED
  BY <1>1, KeptReached, WaitsGentle

\* A client call that waits, or submits: the frames it pushes.
LEMMA WaitsCalled ==
  ASSUME PipelineOK, WaitsOK, Kept,
         \/ \E u \in Updates, reload \in BOOLEAN : Submit(u, reload)
         \/ RelayoutAllNodes \/ ClearData
  PROVE  WaitsOK'
<1>1. pendingMap \in Maps /\ pendingMap \in Nat /\ stack \in Seq(Frames) /\ pendingMap' = pendingMap
  BY MapNumbers, StackFacts DEF Kept
<1>2. ReachedKept /\ pendingMap' \in Nat /\ visibleMap' \in Nat
  BY KeptReached
<1>3. PICK n \in Frames, r \in Frames, c \in Frames :
        /\ n = Waiting(NoopItem, pendingMap) /\ n.kind = "waiting" /\ n.from = pendingMap
        /\ r = Waiting(RelayoutItem, pendingMap) /\ r.kind = "waiting" /\ r.from = pendingMap
        /\ c = Clearing /\ c.kind = "clearing"
  BY <1>1, FrameMembers, FrameFacts
<1>4. ASSUME NEW f \in Frames, NEW s \in Seq(Frames)
      PROVE  Items(Push(f, s)) = Items(s) \cup {f} /\ Head(Push(f, s)) = f
  BY Pushed
<1>5. ASSUME NEW u \in Updates, NEW reload \in BOOLEAN, Submit(u, reload) PROVE WaitsOK'
  <2>1. Submitting(u) \in Frames /\ Submitting(u).kind = "submitting"
    BY FrameMembers, FrameFacts
  <2>2. stack' = Push(Submitting(u), stack)
    BY <1>5 DEF Submit, Push
  <2>3. Items(stack') = Items(stack) \cup {Submitting(u)} /\ Head(stack') = Submitting(u)
    BY <1>1, <1>4, <2>1, <2>2
  <2>4. \A f \in Items(stack') : f \in Items(stack) \/ f.kind \notin {"waiting", "waited"}
    BY <2>1, <2>3
  <2>5. ~Inside("waited")'
    BY <2>1, <2>3 DEF Inside
  <2>6. QED
    BY <1>2, <2>4, <2>5, WaitsMoved
<1>6. CASE RelayoutAllNodes
  <2>1. stack' = Push(r, stack)
    BY <1>3, <1>6 DEF RelayoutAllNodes, Push
  <2>2. Items(stack') = Items(stack) \cup {r} /\ Head(stack') = r
    BY <1>1, <1>4, <2>1
  <2>3. \A f \in Items(stack') : f \in Items(stack) \/ (f.kind = "waiting" /\ f.from <= pendingMap')
    BY <1>1, <1>3, <2>2
  <2>4. ~Inside("waited")'
    BY <1>3, <2>2 DEF Inside
  <2>5. QED
    BY <1>2, <2>3, <2>4, WaitsMoved
<1>7. CASE ClearData
  <2>1. stack' = Push(n, Push(c, stack))
    BY <1>1, <1>3, <1>7 DEF ClearData, Push
  <2>2. Push(c, stack) \in Seq(Frames)
    BY <1>1, Pushed
  <2>3. Items(stack') = Items(stack) \cup {c} \cup {n} /\ Head(stack') = n
    BY <1>1, <1>4, <2>1, <2>2
  <2>4. \A f \in Items(stack') : \/ f \in Items(stack)
                                 \/ f.kind \notin {"waiting", "waited"}
                                 \/ f.kind = "waiting" /\ f.from <= pendingMap'
    BY <1>1, <1>3, <2>3
  <2>5. ~Inside("waited")'
    BY <1>3, <2>3 DEF Inside
  <2>6. QED
    BY <1>2, <2>4, <2>5, WaitsMoved
<1>8. QED
  BY <1>5, <1>6, <1>7

LEMMA WaitsLatched ==
  ASSUME MapsOK, WaitsOK, NEW w \in Updates, Latched(w)
  PROVE  WaitsOK'
<1>1. PipelineOK /\ OrderOK
  BY DEF MapsOK
<1>2. /\ pendingMap \in Nat /\ visibleMap \in Nat /\ mapOf \in [Updates -> Maps]
  BY <1>1, MapNumbers DEF PipelineOK, TypeOK
<1>3. pendingMap <= pendingMap' /\ pendingMap' \in Maps /\ pendingMap' \in Nat
  <2>1. pendingMap' = pendingMap \/ MakeMap
    BY DEF Latched
  <2>2. QED
    BY <1>1, <2>1, MapNumbers, MadeMap, OrderLatched DEF PipelineOK
<1>4. /\ visibleMap' = visibleMap /\ ~Blocked(w)
      /\ mapOf' = [mapOf EXCEPT ![w] = pendingMap'] /\ BlocksKept
  BY DEF Latched, Way
<1>5. ASSUME NEW m \in Maps, Reached(m) PROVE Reached(m)'
  <2>1. CASE m <= visibleMap
    BY <1>4, <2>1 DEF Reached
  <2>2. ASSUME NEW u \in Updates, Blocked(u), m <= mapOf[u] PROVE Reached(m)'
    <3>1. u # w
      BY <1>4, <2>2
    <3>2. mapOf'[u] = mapOf[u] /\ Blocked(u)'
      BY <1>2, <1>4, <2>2, <3>1 DEF BlocksKept
    <3>3. QED
      BY <2>2, <3>2 DEF Reached
  <2>3. QED
    BY <1>5, <2>1, <2>2 DEF Reached
<1>6. ReachedKept
  BY <1>2, <1>3, <1>4, <1>5 DEF ReachedKept
<1>7. /\ stack # <<>> /\ Rest \in Seq(Frames) /\ Items(Rest) \subseteq Items(stack) /\ Plain(Rest)
      /\ stack' = Rest \/ stack' = Push(Waiting(NoopItem, pendingMap'), Rest)
  BY <1>1, StackFacts DEF Latched, Inside, Top
<1>8. PICK g \in Frames : /\ g = Waiting(NoopItem, pendingMap') /\ g.kind = "waiting"
                          /\ g.from = pendingMap'
  BY <1>3, FrameMembers, FrameFacts
<1>9. Items(Push(g, Rest)) = Items(Rest) \cup {g} /\ Head(Push(g, Rest)) = g
  BY <1>7, Pushed
<1>10. \A f \in Items(stack') : f \in Items(stack) \/ (f.kind = "waiting" /\ f.from <= pendingMap')
  BY <1>3, <1>7, <1>8, <1>9
<1>11. ~Inside("waited")'
  BY <1>7, <1>8, <1>9 DEF Inside, Plain
<1>12. QED
  BY <1>1, <1>2, <1>3, <1>4, <1>6, <1>10, <1>11, WaitsMoved

\* The wait is over: every map it waits for is displayed or on the queue, which
\* main runs before the wait returns.
LEMMA WaitsEnd ==
  ASSUME MapsOK, WaitsOK, ~ViewDefers, EndWait
  PROVE  WaitsOK'
<1>1. PipelineOK /\ Kept
  BY WaitKept DEF MapsOK
<1>2. /\ ReachedKept /\ pendingMap' \in Nat /\ visibleMap' \in Nat
      /\ \A m : Reached(m)' <=> Reached(m)
  BY <1>1, KeptReached
<1>3. stack # <<>> /\ Top.kind = "waiting" /\ GroupEmpty
  BY DEF EndWait, Inside, Top
<1>4. /\ Top \in Frames /\ Top \in Items(stack) /\ Rest \in Seq(Frames)
      /\ Items(Rest) \subseteq Items(stack)
  BY <1>1, <1>3, StackFacts
<1>5. PICK m \in Maps : m = Top.from /\ m <= pendingMap
  BY <1>1, <1>3, <1>4, MapNumbers DEF WaitsOK
<1>6. Reached(m)'
  BY <1>2, <1>3, <1>5, GroupReached
<1>7. PICK r \in Frames, q \in Frames :
        /\ r = Running /\ r.kind = "running"
        /\ q = Waited(m) /\ q.kind = "waited" /\ q.from = m
  BY FrameMembers, FrameFacts
<1>8. stack' = Push(r, Push(q, Rest)) \/ stack' = Push(r, Rest)
  BY <1>4, <1>5, <1>7 DEF EndWait, Push
<1>9. ASSUME NEW f \in Frames, NEW s \in Seq(Frames)
      PROVE  Push(f, s) \in Seq(Frames) /\ Items(Push(f, s)) = Items(s) \cup {f} /\ Head(Push(f, s)) = f
  BY Pushed
<1>10. Push(q, Rest) \in Seq(Frames) /\ Items(Push(q, Rest)) = Items(Rest) \cup {q}
  BY <1>4, <1>9
<1>11. Head(stack') = r /\ \A f \in Items(stack') : f \in Items(Rest) \/ f = r \/ f = q
  BY <1>4, <1>8, <1>9, <1>10
<1>12. \A f \in Items(stack') : \/ f \in Items(stack)
                                \/ f.kind \notin {"waiting", "waited"}
                                \/ f.kind = "waited" /\ Reached(f.from)'
  BY <1>4, <1>6, <1>7, <1>11
<1>13. ~Inside("waited")'
  BY <1>7, <1>11 DEF Inside
<1>14. QED
  BY <1>1, <1>2, <1>12, <1>13, WaitsMoved

\* The queue is empty when main comes back to a wait.
LEMMA WaitsReturn ==
  ASSUME MapsOK, WaitsOK, WaitReturns \/ QueueDrained
  PROVE  WaitsOK'
<1>1. PipelineOK /\ Kept
  BY WaitKept DEF MapsOK
<1>2. ReachedKept /\ pendingMap' \in Nat /\ visibleMap' \in Nat /\ visibleMap' = visibleMap
  BY <1>1, KeptReached DEF Kept
<1>3. /\ stack # <<>> /\ stack' = Rest
      /\ Top.kind = "waited" \/ (Top.kind = "running" /\ blocks = <<>>)
  BY DEF WaitReturns, QueueDrained, Inside, Top
<1>4. /\ Rest \in Seq(Frames) /\ Items(Rest) \subseteq Items(stack)
      /\ Rest # <<>> => Below(Top, Head(Rest)) /\ Head(Rest) \in Items(Rest)
  BY <1>1, <1>3, StackFacts, InItems
<1>5. ASSUME Inside("waited")' PROVE Head(stack').from <= visibleMap'
  <2>1. Rest # <<>> /\ Head(Rest).kind = "waited"
    BY <1>3, <1>5 DEF Inside
  <2>2. blocks = <<>>
    BY <1>3, <1>4, <2>1 DEF Below
  <2>3. Reached(Head(Rest).from)
    BY <1>4, <2>1 DEF WaitsOK
  <2>4. \A u \in Updates : ~Blocked(u)
    BY <2>2, Empty DEF Blocked
  <2>5. QED
    BY <1>2, <1>3, <2>3, <2>4 DEF Reached
<1>6. \A f \in Items(stack') : f \in Items(stack)
  BY <1>3, <1>4
<1>7. QED
  BY <1>1, <1>2, <1>5, <1>6, WaitsMoved

LEMMA WaitsReplaced ==
  ASSUME MapsOK, WaitsOK, Replacer, RunRelayout \/ FinishClear
  PROVE  WaitsOK'
<1>1. PipelineOK /\ OrderOK
  BY DEF MapsOK
<1>2. /\ pendingMap' = pendingMap + 1 /\ visibleMap' = pendingMap' /\ visibleMap = pendingMap
      /\ Gentle(stack') /\ (Settled(stack') \/ stack' = stack)
  BY MapsReplaced
<1>3. /\ pendingMap \in Nat /\ Maps \subseteq Nat /\ visibleMap \in Nat
      /\ \A u \in Updates : mapOf[u] \in Nat /\ mapOf[u] <= pendingMap
  BY <1>1, MapNumbers DEF OrderOK
<1>4. ASSUME NEW m \in Maps, Reached(m) PROVE Reached(m)'
  <2>1. m <= pendingMap /\ m \in Nat
    BY <1>2, <1>3, <1>4 DEF Reached
  <2>2. m <= visibleMap'
    BY <1>2, <1>3, <2>1
  <2>3. QED
    BY <2>2 DEF Reached
<1>5. ReachedKept /\ pendingMap' \in Nat /\ visibleMap' \in Nat
  BY <1>2, <1>3, <1>4 DEF ReachedKept
<1>6. QED
  BY <1>1, <1>2, <1>5, WaitsGentle

LEMMA WaitsDelivered ==
  ASSUME MapsOK, WaitsOK, NEW w \in Updates, Displayed(w), BlocksLose(w),
         Gentle(stack'), Settled(stack') \/ stack' = stack
  PROVE  WaitsOK'
<1>1. PipelineOK
  BY DEF MapsOK
<1>2. /\ pendingMap \in Nat /\ Maps \subseteq Nat /\ visibleMap \in Nat
      /\ \A u \in Updates : mapOf[u] \in Nat
  BY <1>1, MapNumbers
<1>3. /\ visibleMap <= mapOf[w] /\ visibleMap' = mapOf[w] /\ mapOf' = mapOf
      /\ pendingMap' = pendingMap
  BY DEF Displayed
<1>4. ASSUME NEW m \in Maps, Reached(m) PROVE Reached(m)'
  <2>1. CASE m <= visibleMap
    BY <1>2, <1>3, <2>1 DEF Reached
  <2>2. ASSUME NEW u \in Updates, Blocked(u), m <= mapOf[u] PROVE Reached(m)'
    <3>1. CASE u = w
      BY <1>3, <2>2, <3>1 DEF Reached
    <3>2. CASE u # w
      BY <1>3, <2>2, <3>2 DEF Reached, BlocksLose
    <3>3. QED
      BY <3>1, <3>2
  <2>3. QED
    BY <1>4, <2>1, <2>2 DEF Reached
<1>5. ReachedKept /\ pendingMap' \in Nat /\ visibleMap' \in Nat
  BY <1>2, <1>3, <1>4 DEF ReachedKept
<1>6. QED
  BY <1>1, <1>5, WaitsGentle

LEMMA WaitsPushed ==
  ASSUME MapsOK, WaitsOK, PushUpdate
  PROVE  WaitsOK'
<1>1. PipelineOK /\ Gentle(stack)
  BY GentleStack DEF MapsOK
<1>2. PICK w \in Updates : BlocksGain(w) /\ UNCHANGED <<mapVars, mapOf, deferred, stack>>
  BY MapsPushed
<1>3. /\ pendingMap \in Nat /\ visibleMap \in Nat /\ pendingMap' = pendingMap
      /\ visibleMap' = visibleMap /\ mapOf' = mapOf /\ stack' = stack
  BY <1>1, <1>2, MapNumbers DEF mapVars
<1>4. ASSUME NEW m \in Maps, Reached(m) PROVE Reached(m)'
  BY <1>2, <1>3, <1>4 DEF Reached, BlocksGain
<1>5. ReachedKept
  BY <1>3, <1>4 DEF ReachedKept
<1>6. QED
  BY <1>1, <1>3, <1>5, WaitsGentle

LEMMA WaitsTraits ==
  ASSUME MapsOK, WaitsOK, RunTraits
  PROVE  WaitsOK'
<1>1. PipelineOK /\ Gentle(stack) /\ Kept
  BY MapsTraits, GentleStack DEF MapsOK
<1>2. stack' = stack
  BY DEF RunTraits
<1>3. QED
  BY <1>1, <1>2, KeptReached, WaitsGentle

-----------------------------------------------------------------------------
(* The traits of the elements. *)

LEMMA TraitsFrom ==
  ASSUME TraitsOK,
         \A m \in Maps : 1 <= m /\ m <= pendingMap /\ Told(m) => Told(m)',
         \A m \in Maps : m <= pendingMap' /\ ~(m <= pendingMap) => Told(m)'
  PROVE  TraitsOK'
BY DEF TraitsOK

\* The blocks that a step takes off the queue or puts on it.
LEMMA TraitsBlocks ==
  ASSUME PipelineOK,
         \/ UNCHANGED blocks
         \/ \E i \in BlockItems : blocks' = Append(blocks, i)
         \/ blocks # <<>> /\ Head(blocks).kind \notin {"update", "traits"} /\ blocks' = Tail(blocks)
  PROVE  /\ TraitsItem \in Items(blocks) => TraitsItem \in Items(blocks')
         /\ \A u \in Updates : Follows(UpdateItem(u), TraitsItem, blocks) =>
                                 Follows(UpdateItem(u), TraitsItem, blocks')
<1>1. blocks \in Seq(BlockItems)
  BY DEF PipelineOK, TypeOK, BlockItems
<1>2. ASSUME NEW i \in BlockItems, blocks' = Append(blocks, i)
      PROVE  /\ Items(blocks') = Items(blocks) \cup {i}
             /\ \A x, y : Follows(x, y, blocks') <=>
                  Follows(x, y, blocks) \/ (x \in Items(blocks) /\ y = i)
  BY <1>1, <1>2, Appended
<1>3. CASE blocks # <<>> /\ Head(blocks).kind \notin {"update", "traits"} /\ blocks' = Tail(blocks)
  <2>1. /\ Items(blocks) = Items(blocks') \cup {Head(blocks)}
        /\ \A x, y : Follows(x, y, blocks) <=>
             Follows(x, y, blocks') \/ (x = Head(blocks) /\ y \in Items(blocks'))
    BY <1>1, <1>3, Popped
  <2>2. Head(blocks) # TraitsItem /\ \A u \in Updates : Head(blocks) # UpdateItem(u)
    BY <1>3, ItemFacts
  <2>3. QED
    BY <2>1, <2>2
<1>4. QED
  BY <1>2, <1>3

LEMMA TraitsMoved ==
  ASSUME PipelineOK, TraitsOK, UNCHANGED <<traits, elementTraits, pendingMap, mapOf>>,
         visibleMap' \in Nat, visibleMap <= visibleMap',
         TraitsChanged \in Items(mainQueue) => TraitsChanged \in Items(mainQueue'),
         TraitsWait => TraitsWait',
         \/ UNCHANGED blocks
         \/ \E i \in BlockItems : blocks' = Append(blocks, i)
         \/ blocks # <<>> /\ Head(blocks).kind \notin {"update", "traits"} /\ blocks' = Tail(blocks)
  PROVE  TraitsOK'
<1>1. /\ TraitsItem \in Items(blocks) => TraitsItem \in Items(blocks')
      /\ \A u \in Updates : Follows(UpdateItem(u), TraitsItem, blocks) =>
                              Follows(UpdateItem(u), TraitsItem, blocks')
  BY TraitsBlocks
<1>2. visibleMap \in Nat /\ Maps \subseteq Nat
  BY MapNumbers
<1>3. ASSUME NEW m \in Maps, m <= visibleMap PROVE m <= visibleMap'
  BY <1>2, <1>3
<1>4. ASSUME NEW m \in Maps, TraitsBehind(m) PROVE TraitsBehind(m)'
  BY <1>1, <1>3, <1>4 DEF TraitsBehind
<1>5. \A m \in Maps : Told(m) => Told(m)'
  BY <1>4 DEF Told
<1>6. QED
  BY <1>5, TraitsFrom

\* A gentle step loses no wait.
LEMMA TraitsGentle ==
  ASSUME Gentle(stack')
  PROVE  TraitsWait => TraitsWait'
BY DEF Gentle, TraitsWait

LEMMA TraitsStays ==
  ASSUME PipelineOK, TraitsOK, Still, TraitsStill
  PROVE  TraitsOK'
<1>1. Kept /\ NoopTaken /\ Gentle(stack')
  BY DEF Still
<1>2. visibleMap \in Nat /\ visibleMap' = visibleMap
  BY <1>1, MapNumbers DEF Kept
<1>3. \/ UNCHANGED blocks
      \/ blocks # <<>> /\ Head(blocks).kind \notin {"update", "traits"} /\ blocks' = Tail(blocks)
  BY <1>1, ItemFacts DEF NoopTaken
<1>4. visibleMap' \in Nat /\ visibleMap <= visibleMap'
  BY <1>2
<1>5. QED
  BY <1>1, <1>3, <1>4, TraitsGentle, TraitsMoved DEF TraitsStill, Kept

\* A step that only pushes frames, or returns from a method that does not wait.
LEMMA TraitsFrames ==
  ASSUME PipelineOK, TraitsOK,
         \/ \E u \in Updates, reload \in BOOLEAN : Submit(u, reload)
         \/ RelayoutAllNodes \/ ClearData \/ WaitReturns \/ QueueDrained
  PROVE  TraitsOK'
<1> USE DEF notStack, dataVars, mapVars, updateVars, traitVars
<1>1. /\ UNCHANGED <<traits, elementTraits, pendingMap, visibleMap, mapOf, mainQueue>>
      /\ UNCHANGED blocks
  BY DEF Submit, RelayoutAllNodes, ClearData, WaitReturns, QueueDrained
<1>2. stack \in Seq(Frames) /\ visibleMap \in Nat
  BY StackFacts, MapNumbers
<1>3. ASSUME NEW f \in Frames, NEW s \in Seq(Frames)
      PROVE  Push(f, s) \in Seq(Frames) /\ Items(s) \subseteq Items(Push(f, s))
  BY Pushed
<1>4. pendingMap \in Maps
  BY MapNumbers
<1>5. CASE \/ \E u \in Updates, reload \in BOOLEAN : Submit(u, reload)
           \/ RelayoutAllNodes \/ ClearData
  <2>1. \/ \E f \in Frames : stack' = Push(f, stack)
        \/ \E f, g \in Frames : stack' = Push(f, Push(g, stack))
    <3>1. ASSUME NEW u \in Updates, NEW reload \in BOOLEAN, Submit(u, reload)
          PROVE  \E f \in Frames : stack' = Push(f, stack)
      BY <3>1, FrameMembers DEF Submit, Push
    <3>2. CASE RelayoutAllNodes
      BY <1>4, <3>2, FrameMembers DEF RelayoutAllNodes, Push
    <3>3. CASE ClearData
      <4>1. PICK f \in Frames, g \in Frames : f = Waiting(NoopItem, pendingMap) /\ g = Clearing
        BY <1>4, FrameMembers
      <4>2. stack' = Push(f, Push(g, stack))
        BY <1>2, <3>3, <4>1 DEF ClearData, Push
      <4>3. QED
        BY <4>2
    <3>4. QED
      BY <1>5, <3>1, <3>2, <3>3
  <2>2. Items(stack) \subseteq Items(stack')
    BY <1>2, <1>3, <2>1
  <2>3. TraitsWait => TraitsWait'
    BY <2>2 DEF TraitsWait
  <2>4. QED
    BY <1>1, <1>2, <2>3, TraitsMoved
<1>6. CASE WaitReturns \/ QueueDrained
  <2>1. stack # <<>> /\ stack' = Rest /\ Top.kind # "waiting"
    BY <1>6 DEF WaitReturns, QueueDrained, Inside, Top
  <2>2. Items(stack) = Items(Rest) \cup {Top}
    BY <2>1, StackFacts
  <2>3. TraitsWait => TraitsWait'
    BY <2>1, <2>2 DEF TraitsWait
  <2>4. QED
    BY <1>1, <1>2, <2>3, TraitsMoved
<1>7. QED
  BY <1>5, <1>6

\* Main hears of the change at once, or will; before the first reload there
\* are no elements.
LEMMA TraitsHeard ==
  ASSUME MapsOK, EnvironmentDidChange \/ \E onMain \in BOOLEAN : EnvironmentChange(onMain)
  PROVE  TraitsOK'
<1> USE DEF dataVars, mapVars, updateVars
<1>1. PipelineOK /\ ReplaceOK
  BY DEF MapsOK
<1>2. /\ stack \in Seq(Frames) /\ pendingMap \in Maps /\ pendingMap' = pendingMap
      /\ Maps \subseteq Nat
  BY <1>1, StackFacts, MapNumbers DEF EnvironmentDidChange, EnvironmentChange
<1>3. PICK f \in Frames : f = Waiting(TraitsItem, pendingMap) /\ f.kind = "waiting" /\ f.item = TraitsItem
  BY <1>2, FrameMembers, FrameFacts
<1>4. ASSUME stack' = Push(f, stack) PROVE TraitsWait'
  <2>1. Items(stack') = Items(stack) \cup {f}
    BY <1>2, <1>4, Pushed
  <2>2. QED
    BY <1>3, <2>1 DEF TraitsWait
<1>5. ASSUME ~initialReload PROVE TraitsOK'
  <2>1. pendingMap = 0
    BY <1>1, <1>5 DEF ReplaceOK
  <2>2. QED
    BY <1>2, <2>1 DEF TraitsOK
<1>6. CASE EnvironmentDidChange
  <2>1. initialReload => stack' = Push(f, stack)
    BY <1>2, <1>3, <1>6 DEF EnvironmentDidChange, MainItem, Push
  <2>2. QED
    BY <1>4, <1>5, <2>1 DEF TraitsOK, Told
<1>7. ASSUME EnvironmentChange(TRUE) PROVE TraitsOK'
  <2>1. initialReload => stack' = Push(f, stack)
    BY <1>3, <1>7 DEF EnvironmentChange, Push
  <2>2. QED
    BY <1>4, <1>5, <2>1 DEF TraitsOK, Told
<1>8. ASSUME EnvironmentChange(FALSE) PROVE TraitsOK'
  <2>1. mainQueue' = Append(mainQueue, TraitsChanged)
    BY <1>8 DEF EnvironmentChange
  <2>2. mainQueue \in Seq({RunItem, TraitsChanged} \cup RetryItems)
    BY <1>1 DEF PipelineOK, TypeOK
  <2>3. TraitsChanged \in Items(mainQueue')
    BY <2>1, <2>2, Appended
  <2>4. QED
    BY <2>3 DEF TraitsOK, Told
<1>9. QED
  BY <1>6, <1>7, <1>8

\* The change that waited is behind every map: the group is empty.
LEMMA TraitsEnd ==
  ASSUME MapsOK, TraitsOK, ~ViewDefers, EndWait
  PROVE  TraitsOK'
<1> USE DEF dataVars, traitVars
<1>1. PipelineOK /\ Kept
  BY WaitKept DEF MapsOK
<1>2. /\ pendingMap' = pendingMap /\ visibleMap' = visibleMap /\ mapOf' = mapOf
      /\ UNCHANGED <<traits, elementTraits, mainQueue>>
      /\ visibleMap \in Nat
  BY <1>1, MapNumbers DEF Kept, EndWait
<1>3. /\ stack # <<>> /\ Top.kind = "waiting" /\ GroupEmpty /\ blocks' = Append(blocks, Top.item)
  BY DEF EndWait, Inside, Top
<1>4. Top \in Frames /\ Rest \in Seq(Frames) /\ Items(stack) = Items(Rest) \cup {Top}
  BY <1>1, <1>3, StackFacts
<1>5. Top.item \in BlockItems /\ TraitsItem \in BlockItems /\ blocks \in Seq(BlockItems)
  <2>1. PICK i \in {NoopItem, RelayoutItem, TraitsItem}, m \in Maps : Top = Waiting(i, m)
    BY <1>3, <1>4, FrameKinds
  <2>2. Top.item = i
    BY <2>1, FrameFacts
  <2>3. blocks \in Seq(BlockItems)
    BY <1>1 DEF BlockItems, PipelineOK, TypeOK
  <2>4. QED
    BY <2>2, <2>3 DEF BlockItems
<1>6. CASE Top.item = TraitsItem
  <2>1. /\ TraitsItem \in Items(blocks')
        /\ \A x : x \in Items(blocks) => Follows(x, TraitsItem, blocks')
    BY <1>3, <1>5, <1>6, Appended
  <2>2. ASSUME NEW m \in Maps, m <= pendingMap PROVE TraitsBehind(m)'
    BY <1>2, <1>3, <2>1, <2>2, GroupReached DEF Reached, Blocked, TraitsBehind
  <2>3. QED
    BY <1>2, <2>2 DEF TraitsOK, Told
<1>7. CASE Top.item # TraitsItem
  <2>1. TraitsWait => \E f \in Items(Rest) : f.kind = "waiting" /\ f.item = TraitsItem
    BY <1>4, <1>7 DEF TraitsWait
  <2>2. ~TraitsWait
    BY <1>1, <1>3, <2>1, OnlyTop
  <2>3. visibleMap' \in Nat /\ visibleMap <= visibleMap'
    BY <1>2
  <2>4. QED
    BY <1>1, <1>2, <1>3, <1>5, <2>2, <2>3, TraitsMoved
<1>8. QED
  BY <1>6, <1>7

LEMMA TraitsGiven ==
  ASSUME MapsOK, TraitsOK, RunTraits
  PROVE  TraitsOK'
<1>1. PipelineOK /\ Kept
  BY MapsTraits DEF MapsOK
<1>2. /\ pendingMap' = pendingMap /\ visibleMap' = visibleMap /\ mapOf' = mapOf
      /\ UNCHANGED <<traits, mainQueue, stack>>
      /\ elementTraits' = [m \in Maps |-> IF m <= visibleMap THEN traits ELSE elementTraits[m]]
      /\ blocks # <<>> /\ Head(blocks).kind = "traits" /\ blocks' = Tail(blocks)
  BY <1>1 DEF Kept, RunTraits, NextBlock
<1>3. blocks \in Seq(BlockItems)
  BY <1>1 DEF PipelineOK, TypeOK, BlockItems
<1>4. /\ \A x, y : Follows(x, y, blocks) <=>
            Follows(x, y, blocks') \/ (x = Head(blocks) /\ y \in Items(blocks'))
  BY <1>2, <1>3, Popped
<1>5. blocks' \in Seq(BlockItems)
  BY <1>2, <1>3, Popped
<1>6. ASSUME NEW m \in Maps, Told(m), ~(m <= visibleMap) PROVE Told(m)'
  <2>1. elementTraits'[m] = elementTraits[m]
    BY <1>2, <1>6
  <2>2. ASSUME TraitsBehind(m) PROVE TraitsBehind(m)'
    <3>1. PICK u \in Updates : Follows(UpdateItem(u), TraitsItem, blocks) /\ m <= mapOf[u]
      BY <1>6, <2>2 DEF TraitsBehind
    <3>2. UpdateItem(u) # Head(blocks)
      BY <1>2, ItemFacts
    <3>3. Follows(UpdateItem(u), TraitsItem, blocks')
      BY <1>4, <3>1, <3>2
    <3>4. TraitsItem \in Items(blocks')
      BY <1>5, <3>3, InItems
    <3>5. QED
      BY <1>2, <3>1, <3>3, <3>4 DEF TraitsBehind
  <2>3. TraitsWait => TraitsWait'
    BY <1>2 DEF TraitsWait
  <2>4. QED
    BY <1>2, <1>6, <2>1, <2>2, <2>3 DEF Told
<1>7. ASSUME NEW m \in Maps, m <= visibleMap PROVE Told(m)'
  <2>1. elementTraits'[m] = traits
    BY <1>2, <1>7
  <2>2. QED
    BY <1>2, <2>1 DEF Told
<1>8. QED
  BY <1>2, <1>6, <1>7, TraitsFrom

\* The elements of a new map take the traits of the moment.
LEMMA NewTraits ==
  ASSUME PipelineOK, MakeMap, UNCHANGED traits
  PROVE  /\ \A m \in Maps : m <= pendingMap => elementTraits'[m] = elementTraits[m]
         /\ \A m \in Maps : m <= pendingMap' /\ ~(m <= pendingMap) => Told(m)'
<1>1. /\ pendingMap \in Nat /\ Maps \subseteq Nat /\ pendingMap' = pendingMap + 1
      /\ elementTraits \in [Maps -> 0 .. MaxTraits]
      /\ elementTraits' = [elementTraits EXCEPT ![pendingMap + 1] = traits]
  BY MapNumbers DEF MakeMap, PipelineOK, TypeOK
<1>2. ASSUME NEW m \in Maps, m <= pendingMap PROVE elementTraits'[m] = elementTraits[m]
  BY <1>1, <1>2
<1>3. ASSUME NEW m \in Maps, m <= pendingMap', ~(m <= pendingMap) PROVE Told(m)'
  <2>1. m = pendingMap + 1
    BY <1>1, <1>3
  <2>2. elementTraits'[m] = traits
    BY <1>1, <2>1
  <2>3. QED
    BY <2>2 DEF Told
<1>4. QED
  BY <1>2, <1>3

LEMMA TraitsLatched ==
  ASSUME MapsOK, TraitsOK, NEW w \in Updates, Latched(w)
  PROVE  TraitsOK'
<1>1. PipelineOK
  BY DEF MapsOK
<1>2. /\ pendingMap \in Nat /\ Maps \subseteq Nat /\ mapOf \in [Updates -> Maps]
      /\ blocks \in Seq(BlockItems)
  BY <1>1, MapNumbers DEF PipelineOK, TypeOK, BlockItems
<1>3. /\ ~Blocked(w) /\ mapOf' = [mapOf EXCEPT ![w] = pendingMap']
      /\ (pendingMap' = pendingMap /\ UNCHANGED elementTraits) \/ MakeMap
      /\ UNCHANGED <<visibleMap, blocks, traits, mainQueue>>
      /\ stack' = Rest \/ stack' = Push(Waiting(NoopItem, pendingMap'), Rest)
      /\ stack # <<>> /\ Top.kind = "submitting"
  BY DEF Latched, Way, Inside, Top
<1>4. pendingMap' \in Maps
  BY <1>1, <1>3, MapNumbers, MadeMap DEF PipelineOK
<1>5. Rest \in Seq(Frames) /\ Items(stack) = Items(Rest) \cup {Top}
  BY <1>1, <1>3, StackFacts
<1>6. PICK g \in Frames : g = Waiting(NoopItem, pendingMap')
  BY <1>4, FrameMembers
<1>7. Items(Rest) \subseteq Items(Push(g, Rest))
  BY <1>5, Pushed
<1>8. Items(Rest) \subseteq Items(stack')
  BY <1>3, <1>6, <1>7
<1>9. TraitsWait => TraitsWait'
  BY <1>3, <1>5, <1>8 DEF TraitsWait
<1>10. ASSUME NEW m \in Maps, TraitsBehind(m) PROVE TraitsBehind(m)'
  <2>1. CASE m <= visibleMap
    BY <1>3, <1>10, <2>1 DEF TraitsBehind
  <2>2. ASSUME NEW u \in Updates, Follows(UpdateItem(u), TraitsItem, blocks), m <= mapOf[u]
        PROVE  TraitsBehind(m)'
    <3>1. u # w
      BY <1>2, <1>3, <2>2, InItems DEF Blocked
    <3>2. mapOf'[u] = mapOf[u]
      BY <1>2, <1>3, <3>1
    <3>3. QED
      BY <1>3, <1>10, <2>2, <3>2 DEF TraitsBehind
  <2>3. QED
    BY <1>10, <2>1, <2>2 DEF TraitsBehind
<1>11. /\ \A m \in Maps : m <= pendingMap => elementTraits'[m] = elementTraits[m]
       /\ \A m \in Maps : m <= pendingMap' /\ ~(m <= pendingMap) => Told(m)'
  <2>1. CASE pendingMap' = pendingMap /\ UNCHANGED elementTraits
    BY <2>1
  <2>2. CASE MakeMap
    BY <1>1, <1>3, <2>2, NewTraits
  <2>3. QED
    BY <1>3, <2>1, <2>2
<1>12. \A m \in Maps : 1 <= m /\ m <= pendingMap /\ Told(m) => Told(m)'
  BY <1>3, <1>9, <1>10, <1>11 DEF Told
<1>13. QED
  BY <1>11, <1>12, TraitsFrom

LEMMA TraitsReplaced ==
  ASSUME MapsOK, TraitsOK, Replacer, RunRelayout \/ FinishClear
  PROVE  TraitsOK'
<1>1. PipelineOK
  BY DEF MapsOK
<1>2. /\ pendingMap' = pendingMap + 1 /\ visibleMap' = pendingMap'
      /\ Gentle(stack') /\ UNCHANGED <<mainQueue, traits>>
  BY MapsReplaced
<1>3. MakeMap
  BY DEF RunRelayout, FinishClear
<1>4. \/ UNCHANGED blocks
      \/ blocks # <<>> /\ Head(blocks).kind \notin {"update", "traits"} /\ blocks' = Tail(blocks)
  BY DEF RunRelayout, FinishClear, NextBlock
<1>5. TraitsItem \in Items(blocks) => TraitsItem \in Items(blocks')
  BY <1>1, <1>4, TraitsBlocks
<1>6. pendingMap \in Nat /\ Maps \subseteq Nat
  BY <1>1, MapNumbers
<1>7. /\ \A m \in Maps : m <= pendingMap => elementTraits'[m] = elementTraits[m]
      /\ \A m \in Maps : m <= pendingMap' /\ ~(m <= pendingMap) => Told(m)'
  BY <1>1, <1>2, <1>3, NewTraits
<1>8. ASSUME NEW m \in Maps, m <= pendingMap, TraitsBehind(m) PROVE TraitsBehind(m)'
  <2>1. m <= visibleMap'
    BY <1>2, <1>6, <1>8
  <2>2. QED
    BY <1>5, <1>8, <2>1 DEF TraitsBehind
<1>9. TraitsWait => TraitsWait'
  BY <1>2, TraitsGentle
<1>10. \A m \in Maps : 1 <= m /\ m <= pendingMap /\ Told(m) => Told(m)'
  BY <1>2, <1>7, <1>8, <1>9 DEF Told
<1>11. QED
  BY <1>7, <1>10, TraitsFrom

LEMMA TraitsDelivered ==
  ASSUME MapsOK, TraitsOK, NEW w \in Updates, Displayed(w), Head(blocks) = UpdateItem(w),
         blocks # <<>>, blocks' = Tail(blocks), Gentle(stack')
  PROVE  TraitsOK'
<1>1. PipelineOK
  BY DEF MapsOK
<1>2. /\ visibleMap \in Nat /\ Maps \subseteq Nat /\ mapOf[w] \in Nat
      /\ blocks \in Seq(BlockItems)
  BY <1>1, MapNumbers DEF PipelineOK, TypeOK, BlockItems
<1>3. /\ visibleMap <= mapOf[w] /\ visibleMap' = mapOf[w]
      /\ UNCHANGED <<pendingMap, mapOf, traits, elementTraits, mainQueue>>
  BY DEF Displayed
<1>4. /\ Items(blocks) = Items(blocks') \cup {Head(blocks)}
      /\ \A x, y : Follows(x, y, blocks) <=>
           Follows(x, y, blocks') \/ (x = Head(blocks) /\ y \in Items(blocks'))
  BY <1>2, Popped
<1>5. Head(blocks) # TraitsItem /\ \A u : UpdateItem(u) = Head(blocks) => u = w
  BY ItemFacts
<1>6. ASSUME NEW m \in Maps, TraitsBehind(m) PROVE TraitsBehind(m)'
  <2>1. TraitsItem \in Items(blocks')
    BY <1>4, <1>5, <1>6 DEF TraitsBehind
  <2>2. CASE m <= visibleMap
    <3>1. m <= visibleMap'
      BY <1>2, <1>3, <2>2
    <3>2. QED
      BY <2>1, <3>1 DEF TraitsBehind
  <2>3. ASSUME NEW u \in Updates, Follows(UpdateItem(u), TraitsItem, blocks), m <= mapOf[u]
        PROVE  TraitsBehind(m)'
    <3>1. CASE u = w
      BY <1>3, <2>1, <2>3, <3>1 DEF TraitsBehind
    <3>2. CASE u # w
      <4>1. Follows(UpdateItem(u), TraitsItem, blocks')
        BY <1>4, <1>5, <2>3, <3>2
      <4>2. QED
        BY <1>3, <2>1, <2>3, <4>1 DEF TraitsBehind
    <3>3. QED
      BY <3>1, <3>2
  <2>4. QED
    BY <1>6, <2>2, <2>3 DEF TraitsBehind
<1>7. TraitsWait => TraitsWait'
  BY TraitsGentle
<1>8. \A m \in Maps : Told(m) => Told(m)'
  BY <1>3, <1>6, <1>7 DEF Told
<1>9. QED
  BY <1>3, <1>8, TraitsFrom

LEMMA TraitsPushed ==
  ASSUME MapsOK, TraitsOK, PushUpdate
  PROVE  TraitsOK'
<1> USE DEF dataVars, traitVars
<1>1. PipelineOK
  BY DEF MapsOK
<1>2. PICK w \in Updates : /\ blocks' = Append(blocks, UpdateItem(w))
                           /\ UNCHANGED <<mapVars, mapOf, deferred, stack>>
  BY MapsPushed
<1>3. UNCHANGED <<traits, elementTraits, mainQueue>>
  BY DEF PushUpdate
<1>4. UpdateItem(w) \in BlockItems /\ (TraitsWait => TraitsWait')
  BY <1>2 DEF BlockItems, UpdateItems, TraitsWait
<1>5. /\ pendingMap' = pendingMap /\ visibleMap' = visibleMap /\ visibleMap' \in Nat
      /\ visibleMap <= visibleMap'
  BY <1>1, <1>2, MapNumbers DEF mapVars
<1>6. QED
  BY <1>1, <1>2, <1>3, <1>4, <1>5, TraitsMoved

-----------------------------------------------------------------------------
(* The waits and the traits together. *)

LEMMA InvariantInit == Init => IInv
<1>1. SUFFICES ASSUME Init PROVE IInv
  OBVIOUS
<1>2. MapsOK
  BY <1>1, MapsInit
<1>3. stack = <<>> /\ pendingMap = 0
  BY <1>1 DEF Init
<1>4. WaitsOK
  BY <1>3, Empty DEF WaitsOK, Inside
<1>5. \A m \in Maps : ~(1 <= m /\ m <= pendingMap)
  BY <1>3 DEF Maps
<1>6. TraitsOK
  BY <1>5 DEF TraitsOK
<1>7. QED
  BY <1>2, <1>4, <1>6 DEF IInv

LEMMA InvariantNext ==
  ASSUME IInv, Replacer, ~ViewDefers, [Next]_vars
  PROVE  WaitsOK' /\ TraitsOK'
<1>1. MapsOK /\ WaitsOK /\ TraitsOK /\ PipelineOK /\ ReplaceOK
  BY DEF IInv, MapsOK
<1>2. ASSUME Still, TraitsStill PROVE WaitsOK' /\ TraitsOK'
  BY <1>1, <1>2, WaitsStill, TraitsStays
<1>3. CASE ClientStep
  <2>1. CASE \E u \in Updates, reload \in BOOLEAN : Submit(u, reload)
    <3>1. Kept
      BY <1>1, <2>1, SubmitStep
    <3>2. QED
      BY <1>1, <2>1, <3>1, WaitsCalled, TraitsFrames
  <2>2. CASE RelayoutAllNodes \/ ClearData
    BY <1>1, <2>2, ReplaceAsked, WaitsCalled, TraitsFrames
  <2>3. CASE \/ WaitUntilAllUpdatesAreProcessed
             \/ \E c \in Callbacks : OnDidFinishProcessingUpdates(c)
             \/ \E b \in SyncBlocks : OnDidFinishSynchronizing(b)
    BY <1>1, <1>2, <2>3, StillClient
  <2>4. CASE \E onMain \in BOOLEAN : EnvironmentChange(onMain)
    BY <1>1, <2>4, StillEnvironment, WaitsStill, TraitsHeard
  <2>5. QED
    BY <1>3, <2>1, <2>2, <2>3, <2>4 DEF ClientStep
<1>4. CASE MainStep
  <2>1. ASSUME NEW empty \in BOOLEAN, NEW wait \in BOOLEAN, Latch(empty, wait)
        PROVE  WaitsOK' /\ TraitsOK'
    <3>1. CASE initialReload
      <4>1. PICK w \in Updates : Latched(w)
        BY <1>1, <2>1, <3>1, LatchStep
      <4>2. QED
        BY <1>1, <4>1, WaitsLatched, TraitsLatched
    <3>2. CASE ~initialReload
      BY <1>1, <1>2, <2>1, <3>2, StillCompletion
    <3>3. QED
      BY <3>1, <3>2
  <2>2. CASE CompletionReturns
    BY <1>1, <1>2, <2>2, StillCompletion
  <2>3. CASE \/ CallbackReturns \/ RunNoop \/ FinishCheck
             \/ \E b \in SyncBlocks : RunSyncBlock(b)
             \/ RemoveSyncBlocks \/ RunBlocks \/ Retry
    BY <1>1, <1>2, <2>3, StillMain
  <2>4. CASE EnvironmentDidChange
    BY <1>1, <2>4, StillEnvironment, WaitsStill, TraitsHeard
  <2>5. CASE EndWait
    BY <1>1, <2>5, WaitsEnd, TraitsEnd
  <2>6. CASE WaitReturns \/ QueueDrained
    BY <1>1, <2>6, WaitsReturn, TraitsFrames
  <2>7. CASE FinishClear \/ RunRelayout
    BY <1>1, <2>7, WaitsReplaced, TraitsReplaced
  <2>8. CASE RunTraits
    BY <1>1, <2>8, WaitsTraits, TraitsGiven
  <2>9. CASE DeliverAtOnce \/ DeliverAnimated
    <3>1. PICK w \in Updates : /\ Displayed(w) /\ BlocksLose(w) /\ Gentle(stack')
                               /\ Head(blocks) = UpdateItem(w)
                               /\ Settled(stack') \/ stack' = stack
      BY <1>1, <2>9, MapsDelivered
    <3>2. blocks # <<>> /\ blocks' = Tail(blocks)
      BY <2>9 DEF DeliverAtOnce, DeliverAnimated, NextBlock
    <3>3. QED
      BY <1>1, <3>1, <3>2, WaitsDelivered, TraitsDelivered
  <2>10. CASE DeliverDeferred
    BY <1>1, <2>10, MapsDeferred
  <2>11. QED
    BY <1>4, <2>1, <2>2, <2>3, <2>4, <2>5, <2>6, <2>7, <2>8, <2>9, <2>10 DEF MainStep
<1>5. CASE ViewStep
  <2>1. CASE ConsumeUpdate
    BY <1>1, <2>1, MapsConsumed
  <2>2. CASE \E u \in Updates : AnimationsEnd(u)
    BY <1>1, <1>2, <2>2, StillCompletion
  <2>3. QED
    BY <1>5, <2>1, <2>2 DEF ViewStep
<1>6. CASE EditingStep
  <2>1. CASE PushUpdate
    BY <1>1, <2>1, WaitsPushed, TraitsPushed
  <2>2. CASE DispatchRun \/ Uncount \/ LeaveGroup \/ BringRetryToMain
    BY <1>1, <1>2, <2>2, StillEditing
  <2>3. QED
    BY <1>6, <2>1, <2>2 DEF EditingStep
<1>7. CASE UNCHANGED vars
  BY <1>1, <1>2, <1>7, StillStutter
<1>8. QED
  BY <1>3, <1>4, <1>5, <1>6, <1>7 DEF Next

\* When the view takes its updates at once, every map a wait is for is
\* displayed or on the queue from the moment the wait is over, and a change of
\* the traits is always on its way behind the maps it has not reached.
THEOREM Invariance ==
  ASSUME Replacer, ~ViewDefers
  PROVE  Spec => []IInv
<1>1. IInv /\ [Next]_vars => IInv'
  <2>1. SUFFICES ASSUME IInv, [Next]_vars PROVE IInv'
    OBVIOUS
  <2>2. PipelineOK'
    BY <2>1, PipelineNext DEF IInv, MapsOK
  <2>3. MapsStep
    BY <2>1, MapsNext DEF IInv
  <2>4. WaitsOK' /\ TraitsOK'
    BY <2>1, InvariantNext
  <2>5. QED
    BY <2>2, <2>3, <2>4 DEF IInv, MapsOK, MapsStep
<1>2. QED
  BY InvariantInit, <1>1, PTL DEF Spec

\* waitUntilAllUpdatesAreProcessed returns after every map that was made before
\* it is displayed, also inside a completion handler that a wait runs.
THEOREM WaitsAlwaysShowUpdates ==
  ASSUME Replacer, ~ViewDefers
  PROVE  Spec => []WaitShowsUpdates
<1>1. IInv => WaitShowsUpdates
  BY DEF IInv, WaitsOK, WaitShowsUpdates
<1>2. QED
  BY <1>1, Invariance, PTL

LEMMA TraitsReach ==
  ASSUME IInv
  PROVE  TraitsReachElements
<1>1. SUFFICES ASSUME blocks = <<>>, TraitsChanged \notin Items(mainQueue),
                      \A i \in DOMAIN stack : stack[i].kind = "waiting" => stack[i].item # TraitsItem,
                      NEW m \in 1 .. visibleMap
               PROVE  elementTraits[m] = traits
  BY DEF TraitsReachElements
<1>2. PipelineOK /\ OrderOK /\ TraitsOK
  BY DEF IInv, MapsOK
<1>3. pendingMap \in Nat /\ visibleMap \in Nat /\ visibleMap \in Maps
  BY <1>2, MapNumbers
<1>4. m \in Maps /\ 1 <= m /\ m <= pendingMap
  BY <1>2, <1>3, BoundsAssumption DEF OrderOK, Maps
<1>5. ~TraitsWait
  BY <1>1 DEF TraitsWait, Items
<1>6. ~TraitsBehind(m)
  BY <1>1, Empty DEF TraitsBehind
<1>7. QED
  BY <1>1, <1>2, <1>4, <1>5, <1>6 DEF TraitsOK, Told

\* A change of the traits reaches every element on display, also those laid
\* out with the old traits and those of maps displayed after the change.
THEOREM TraitsAlwaysReachElements ==
  ASSUME Replacer, ~ViewDefers
  PROVE  Spec => []TraitsReachElements
<1>1. IInv => TraitsReachElements
  BY TraitsReach
<1>2. QED
  BY <1>1, Invariance, PTL
==============================================================================
