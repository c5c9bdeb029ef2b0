-------------------- MODULE AsyncTransactionQueueProofs --------------------
(***************************************************************************)
(* Proofs about AsyncTransactionQueue, for any finite sets of operations   *)
(* and workers and any groups, queues and priorities.                      *)
(*                                                                         *)
(* The inductive invariant joins the checked invariants with what they     *)
(* rest on: which operation a worker holds, that an operation is in one    *)
(* queue or with one worker, and that a dead group has nobody left in it.  *)
(* With it every step is one of the abstract DispatchGroup, or none.       *)
(***************************************************************************)
EXTENDS AsyncTransactionQueue, FiniteSetTheorems, SequenceTheorems,
        TLAPS

\* A worker belongs to a queue as long as it lives, and has an operation of
\* that queue, all its own, while it runs a block and until it has left.
WorkerInv ==
  \A w \in Workers :
    /\ wpc[w] = "none" <=> wqueue[w] = NoQueue
    /\ wpc[w] \in {"running", "leaving"} <=> wop[w] # NoOp
    /\ wop[w] # NoOp => op[wop[w]] # NoOp
    /\ \A v \in Workers : wop[w] # NoOp /\ wop[v] = wop[w] => v = w

\* A queue holds scheduled operations of its own, once, that nobody runs.
QueueInv ==
  \A q \in Queues : \A i \in DOMAIN operationQueue[q] :
    LET o == operationQueue[q][i]
    IN  /\ op[o] # NoOp /\ op[o].queue = q
        /\ \A w \in Workers : wop[w] # o
        /\ \A j \in DOMAIN operationQueue[q] : operationQueue[q][j] = o => j = i

\* main waits only for a group whose owner keeps it.
WaitInv ==
  /\ waiting # NoGroup => life[waiting] /\ ~releaseCalled[waiting]
  /\ NoLostWakeup

ThreadInv ==
  /\ \A q \in Queues : threadCount[q] = Cardinality(WorkersOf(q))
  /\ NoStrandedOperation
  /\ OneThreadIgnoresPriority

GroupInv ==
  \A g \in Groups :
    IF life[g]
      THEN pendingOperations[g] = Cardinality(Outstanding(g)) + manual[g]
      ELSE Outstanding(g) = {} /\ manual[g] = 0

WorkInv == WorkerInv /\ QueueInv /\ QueueConsistency /\ ThreadInv

IInv == TypeOK /\ WorkInv /\ GroupInv /\ WaitInv

------------------------------------------------------------------------------
(* Finite sets and sequences. *)

LEMMA FiniteParts ==
  /\ \A q : IsFiniteSet(WorkersOf(q)) /\ Cardinality(WorkersOf(q)) \in Nat
  /\ \A g : IsFiniteSet(Outstanding(g)) /\ Cardinality(Outstanding(g)) \in Nat
<1>1. \A q : WorkersOf(q) \in SUBSET Workers
  BY DEF WorkersOf
<1>2. \A g : Outstanding(g) \in SUBSET Ops
  BY DEF Outstanding
<1>3. QED
  BY <1>1, <1>2, FS_Subset, FS_CardinalityType, QueueAssumption

\* Removing the k-th element keeps the others in their order.
LEMMA RemoveAtProperties ==
  ASSUME NEW S, NEW s \in Seq(S), NEW k \in 1 .. Len(s)
  PROVE  /\ RemoveAt(s, k) \in Seq(S)
         /\ Len(RemoveAt(s, k)) = Len(s) - 1
         /\ \A i \in 1 .. Len(s) - 1 :
              RemoveAt(s, k)[i] = IF i < k THEN s[i] ELSE s[i + 1]
<1> DEFINE a == SubSeq(s, 1, k - 1)
           b == SubSeq(s, k + 1, Len(s))
<1>1. a \in Seq(S) /\ Len(a) = k - 1 /\ \A i \in 1 .. k - 1 : a[i] = s[i]
  OBVIOUS
<1>2. /\ b \in Seq(S) /\ Len(b) = Len(s) - k
      /\ \A i \in 1 .. Len(s) - k : b[i] = s[k + i]
  OBVIOUS
<1> HIDE DEF a, b
<1>3. a \o b \in Seq(S) /\ Len(a \o b) = Len(a) + Len(b)
  BY <1>1, <1>2, ConcatProperties
<1>4. \A i \in 1 .. Len(a) + Len(b) :
        (a \o b)[i] = IF i <= Len(a) THEN a[i] ELSE b[i - Len(a)]
  BY <1>1, <1>2, ConcatProperties
<1>5. Len(a) + Len(b) = Len(s) - 1
  BY <1>1, <1>2
<1>6. ASSUME NEW i \in 1 .. Len(s) - 1, i < k PROVE (a \o b)[i] = s[i]
  BY <1>1, <1>4, <1>5, <1>6
<1>7. ASSUME NEW i \in 1 .. Len(s) - 1, ~(i < k) PROVE (a \o b)[i] = s[i + 1]
  <2>1. i - Len(a) \in 1 .. Len(s) - k /\ k + (i - Len(a)) = i + 1 /\ ~(i <= Len(a))
    BY <1>1, <1>7
  <2>2. (a \o b)[i] = b[i - Len(a)]
    BY <1>4, <1>5, <2>1
  <2>3. QED
    BY <1>2, <2>1, <2>2
<1>8. QED
  BY <1>3, <1>5, <1>6, <1>7 DEF RemoveAt, a, b

\* Where the k-th element of RemoveAt(s, n) was in s.
Old(n, k) == IF k < n THEN k ELSE k + 1

LEMMA RemoveAtOld ==
  ASSUME NEW T, NEW s \in Seq(T), NEW n \in 1 .. Len(s)
  PROVE  /\ RemoveAt(s, n) \in Seq(T)
         /\ \A k \in DOMAIN RemoveAt(s, n) :
              /\ k \in Nat /\ Old(n, k) \in DOMAIN s /\ Old(n, k) # n
              /\ RemoveAt(s, n)[k] = s[Old(n, k)]
         /\ \A k \in DOMAIN s : k # n => \E m \in DOMAIN RemoveAt(s, n) : Old(n, m) = k
         /\ \A k, m \in DOMAIN RemoveAt(s, n) : k < m <=> Old(n, k) < Old(n, m)
<1> DEFINE rest == RemoveAt(s, n)
<1>1. /\ rest \in Seq(T) /\ DOMAIN rest = 1 .. Len(s) - 1
      /\ \A k \in 1 .. Len(s) - 1 : rest[k] = IF k < n THEN s[k] ELSE s[k + 1]
  BY RemoveAtProperties
<1> HIDE DEF rest
<1>2. \A k \in DOMAIN rest : /\ k \in Nat /\ Old(n, k) \in DOMAIN s /\ Old(n, k) # n
                             /\ rest[k] = s[Old(n, k)]
  BY <1>1 DEF Old
<1>3. \A k \in DOMAIN s : k # n => \E m \in DOMAIN rest : Old(n, m) = k
  <2> SUFFICES ASSUME NEW k \in DOMAIN s, k # n
               PROVE  \E m \in DOMAIN rest : Old(n, m) = k
    OBVIOUS
  <2>1. CASE k < n
    BY <2>1, <1>1 DEF Old
  <2>2. CASE k > n
    <3>1. k - 1 \in DOMAIN rest /\ Old(n, k - 1) = k
      BY <2>2, <1>1 DEF Old
    <3>2. QED
      BY <3>1
  <2>3. QED
    BY <2>1, <2>2
<1>4. \A k, m \in DOMAIN rest : k < m <=> Old(n, k) < Old(n, m)
  BY <1>1 DEF Old
<1>5. QED
  BY <1>1, <1>2, <1>3, <1>4 DEF rest

LEMMA SelectionWithoutOther ==
  ASSUME NEW T, NEW S, NEW list \in Seq(T), NEW queue \in Seq(T),
         IsSelection(list, queue, S), NEW n \in 1 .. Len(queue), queue[n] \notin S
  PROVE  IsSelection(list, RemoveAt(queue, n), S)
<1> DEFINE rest == RemoveAt(queue, n)
<1>1. /\ \A k \in DOMAIN rest : Old(n, k) \in DOMAIN queue /\ rest[k] = queue[Old(n, k)]
      /\ \A k \in DOMAIN queue : k # n => \E m \in DOMAIN rest : Old(n, m) = k
      /\ \A k, m \in DOMAIN rest : k < m <=> Old(n, k) < Old(n, m)
  BY RemoveAtOld
<1> HIDE DEF rest
<1>2. \A i \in DOMAIN list : list[i] \in S /\ \E k \in DOMAIN rest : rest[k] = list[i]
  <2> TAKE i \in DOMAIN list
  <2>1. list[i] \in S
    BY DEF IsSelection
  <2>2. PICK k \in DOMAIN queue : queue[k] = list[i]
    BY DEF IsSelection
  <2>3. QED
    BY <2>1, <2>2, <1>1
<1>3. \A k \in DOMAIN rest : rest[k] \in S => \E i \in DOMAIN list : list[i] = rest[k]
  BY <1>1 DEF IsSelection
<1>4. ASSUME NEW i \in DOMAIN list, NEW j \in DOMAIN list,
             NEW k \in DOMAIN rest, NEW m \in DOMAIN rest,
             rest[k] = list[i], rest[m] = list[j]
      PROVE  i < j <=> k < m
  <2>1. i < j <=> Old(n, k) < Old(n, m)
    BY <1>4, <1>1 DEF IsSelection
  <2>2. QED
    BY <2>1, <1>1
<1>5. QED
  BY <1>2, <1>3, <1>4 DEF IsSelection, rest

LEMMA SelectionWithoutFirst ==
  ASSUME NEW T, NEW S, NEW list \in Seq(T), NEW queue \in Seq(T),
         IsSelection(list, queue, S), NEW n \in 1 .. Len(queue),
         list # <<>>, queue[n] = Head(list),
         \A k \in DOMAIN queue : queue[k] = queue[n] => k = n
  PROVE  IsSelection(Tail(list), RemoveAt(queue, n), S)
<1> DEFINE rest == RemoveAt(queue, n)
           tail == Tail(list)
<1>1. /\ \A k \in DOMAIN rest : /\ Old(n, k) \in DOMAIN queue /\ Old(n, k) # n
                                /\ rest[k] = queue[Old(n, k)]
      /\ \A k \in DOMAIN queue : k # n => \E m \in DOMAIN rest : Old(n, m) = k
      /\ \A k, m \in DOMAIN rest : k < m <=> Old(n, k) < Old(n, m)
  BY RemoveAtOld
<1>4. /\ tail \in Seq(T) /\ 1 \in DOMAIN list /\ list[1] = queue[n]
      /\ \A i \in DOMAIN tail : i + 1 \in DOMAIN list /\ tail[i] = list[i + 1]
      /\ \A i \in DOMAIN list : i = 1 \/ i - 1 \in DOMAIN tail
  OBVIOUS
<1>5. \A i \in DOMAIN list : i # 1 => list[i] # queue[n]
  BY <1>4 DEF IsSelection
<1> HIDE DEF rest, tail
<1>6. \A i \in DOMAIN tail : tail[i] \in S /\ \E k \in DOMAIN rest : rest[k] = tail[i]
  <2> TAKE i \in DOMAIN tail
  <2>1. PICK k \in DOMAIN queue : queue[k] = list[i + 1]
    BY <1>4 DEF IsSelection
  <2>2. k # n
    BY <2>1, <1>4, <1>5
  <2>3. QED
    BY <2>1, <2>2, <1>1, <1>4 DEF IsSelection
<1>7. ASSUME NEW k \in DOMAIN rest, rest[k] \in S
      PROVE  \E i \in DOMAIN tail : tail[i] = rest[k]
  <2>1. PICK i \in DOMAIN list : list[i] = queue[Old(n, k)]
    BY <1>1, <1>7 DEF IsSelection
  <2>2. i # 1
    BY <2>1, <1>1, <1>4
  <2>3. i - 1 \in DOMAIN tail /\ tail[i - 1] = list[i]
    BY <2>2, <1>4
  <2>4. QED
    BY <2>1, <2>3, <1>1
<1>8. ASSUME NEW i \in DOMAIN tail, NEW j \in DOMAIN tail,
             NEW k \in DOMAIN rest, NEW m \in DOMAIN rest,
             rest[k] = tail[i], rest[m] = tail[j]
      PROVE  i < j <=> k < m
  <2>1. /\ i + 1 \in DOMAIN list /\ list[i + 1] = queue[Old(n, k)]
        /\ j + 1 \in DOMAIN list /\ list[j + 1] = queue[Old(n, m)]
    BY <1>8, <1>1, <1>4
  <2>2. i + 1 < j + 1 <=> Old(n, k) < Old(n, m)
    BY <2>1, <1>1 DEF IsSelection
  <2>3. i + 1 < j + 1 <=> i < j
    BY <1>4
  <2>4. QED
    BY <2>2, <2>3, <1>1
<1>9. QED
  BY <1>6, <1>7, <1>8 DEF IsSelection, rest, tail

LEMMA SelectionAndOther ==
  ASSUME NEW T, NEW S, NEW list \in Seq(T), NEW queue \in Seq(T),
         IsSelection(list, queue, S), NEW x \in T, x \notin S
  PROVE  IsSelection(list, Append(queue, x), S)
<1> DEFINE longer == Append(queue, x)
<1>1. /\ longer \in Seq(T) /\ DOMAIN longer = DOMAIN queue \cup {Len(queue) + 1}
      /\ \A k \in DOMAIN queue : longer[k] = queue[k]
      /\ longer[Len(queue) + 1] = x
  OBVIOUS
<1> HIDE DEF longer
<1>2. QED
  BY <1>1 DEF IsSelection, longer

LEMMA SelectionAndNew ==
  ASSUME NEW T, NEW S, NEW list \in Seq(T), NEW queue \in Seq(T),
         IsSelection(list, queue, S), NEW x \in T, x \in S,
         \A k \in DOMAIN queue : queue[k] # x
  PROVE  IsSelection(Append(list, x), Append(queue, x), S)
<1> DEFINE longer == Append(queue, x)
           llist == Append(list, x)
<1>1. /\ longer \in Seq(T) /\ DOMAIN longer = DOMAIN queue \cup {Len(queue) + 1}
      /\ \A k \in DOMAIN queue : longer[k] = queue[k] /\ k \in Nat /\ k < Len(queue) + 1
      /\ longer[Len(queue) + 1] = x /\ Len(queue) \in Nat
  OBVIOUS
<1>2. /\ llist \in Seq(T) /\ DOMAIN llist = DOMAIN list \cup {Len(list) + 1}
      /\ \A k \in DOMAIN list : llist[k] = list[k] /\ k \in Nat /\ k < Len(list) + 1
      /\ llist[Len(list) + 1] = x /\ Len(list) \in Nat
  OBVIOUS
<1>3. \A i \in DOMAIN list : list[i] # x
  BY DEF IsSelection
<1> HIDE DEF longer, llist
<1>4. \A i \in DOMAIN llist : llist[i] \in S /\ \E k \in DOMAIN longer : longer[k] = llist[i]
  BY <1>1, <1>2 DEF IsSelection
<1>5. \A k \in DOMAIN longer : longer[k] \in S => \E i \in DOMAIN llist : llist[i] = longer[k]
  BY <1>1, <1>2 DEF IsSelection
<1>6. \A i, j \in DOMAIN llist, k, m \in DOMAIN longer :
        longer[k] = llist[i] /\ longer[m] = llist[j] => (i < j <=> k < m)
  BY <1>1, <1>2, <1>3 DEF IsSelection
<1>7. QED
  BY <1>4, <1>5, <1>6 DEF IsSelection, longer, llist

\* Only the members of S that are in the queue matter.
LEMMA SelectionBySet ==
  ASSUME NEW S, NEW R, NEW list, NEW queue, IsSelection(list, queue, S),
         \A k \in DOMAIN queue : queue[k] \in S <=> queue[k] \in R
  PROVE  IsSelection(list, queue, R)
BY DEF IsSelection

\* The first of the queue is the first of its selection.
LEMMA FirstOfSelection ==
  ASSUME NEW T, NEW S, NEW list \in Seq(T), NEW queue \in Seq(T),
         IsSelection(list, queue, S), queue # <<>>, queue[1] \in S
  PROVE  list # <<>> /\ list[1] = queue[1]
<1>1. PICK i \in DOMAIN list : list[i] = queue[1]
  BY DEF IsSelection
<1>2. PICK k \in DOMAIN queue : queue[k] = list[1]
  BY <1>1 DEF IsSelection
<1>3. 1 < i <=> k < 1
  BY <1>1, <1>2 DEF IsSelection
<1>4. QED
  BY <1>1, <1>2, <1>3

------------------------------------------------------------------------------
LEMMA InitIInv == Init => IInv
<1> SUFFICES ASSUME Init PROVE IInv
  OBVIOUS
<1> USE QueueAssumption DEF Init
<1>1. TypeOK
  <2>1. operationQueue \in [Queues -> Seq(Ops)]
    OBVIOUS
  <2>2. priorityMap \in [Queues -> [Priorities -> Seq(Ops)]]
    OBVIOUS
  <2>3. QED
    BY <2>1, <2>2 DEF TypeOK
<1>2. WorkerInv /\ QueueInv
  BY DEF WorkerInv, QueueInv
<1>3. QueueConsistency
  BY DEF QueueConsistency, IsSelection
<1>4. \A q \in Queues : WorkersOf(q) = {}
  BY DEF WorkersOf
<1>5. ThreadInv
  BY <1>4, FS_EmptySet DEF ThreadInv, NoStrandedOperation, OneThreadIgnoresPriority
<1>6. \A g \in Groups : Outstanding(g) = {}
  BY DEF Outstanding
<1>7. GroupInv /\ WaitInv
  BY <1>6 DEF GroupInv, WaitInv, NoLostWakeup
<1>8. QED
  BY <1>1, <1>2, <1>3, <1>5, <1>7 DEF IInv, WorkInv

\* A call on a group leaves queues, workers and operations alone.
LEMMA WorkFrame ==
  ASSUME WorkInv, UNCHANGED <<entryVars, workerVars, op>>
  PROVE  WorkInv'
<1> USE DEF entryVars, workerVars
<1>1. WorkerInv' /\ QueueInv' /\ QueueConsistency'
  BY DEF WorkInv, WorkerInv, QueueInv, QueueConsistency, OfPriority
<1>2. ThreadInv'
  BY DEF WorkInv, ThreadInv, NoStrandedOperation, OneThreadIgnoresPriority, WorkersOf
<1>3. QED
  BY <1>1, <1>2 DEF WorkInv

LEMMA QueueFrame ==
  ASSUME QueueInv, QueueConsistency, UNCHANGED <<operationQueue, priorityMap, wop, op>>
  PROVE  QueueInv' /\ QueueConsistency'
<1>1. QueueInv'
  BY DEF QueueInv
<1>2. QueueConsistency'
  BY DEF QueueConsistency, OfPriority, IsSelection
<1>3. QED
  BY <1>1, <1>2

\* A worker that neither schedules nor leaves disturbs no group.
LEMMA GroupFrame ==
  ASSUME GroupInv, WaitInv, UNCHANGED <<op, groupVars, mainVars>>
  PROVE  GroupInv' /\ WaitInv'
BY DEF GroupInv, WaitInv, NoLostWakeup, Outstanding, groupVars, mainVars

------------------------------------------------------------------------------
(* Calls on groups. *)

\* What leave() relies on: an operation or an entry that has not left counts.
LEMMA Counted ==
  ASSUME IInv, NEW g \in Groups, Outstanding(g) # {} \/ manual[g] > 0
  PROVE  /\ life[g] /\ pendingOperations[g] >= 1
         /\ pendingOperations[g] = Cardinality(Outstanding(g)) + manual[g]
<1>1. life[g] /\ pendingOperations[g] = Cardinality(Outstanding(g)) + manual[g]
  BY DEF IInv, GroupInv, TypeOK
<1>2. manual[g] \in Nat /\ Cardinality(Outstanding(g)) \in Nat
  BY FiniteParts DEF IInv, TypeOK
<1>3. Outstanding(g) # {} => Cardinality(Outstanding(g)) # 0
  BY FiniteParts, FS_EmptySet
<1>4. QED
  BY <1>1, <1>2, <1>3

\* The critical section of leave(), for whoever leaves: the number of those
\* who have not left goes down with the counter.
LEMMA LeaveGroupInv ==
  ASSUME IInv, NEW g \in Groups, LeaveGroup(g),
         Outstanding(g) # {} \/ manual[g] > 0,
         manual' \in [Groups -> Nat],
         \A h \in Groups : h # g => Outstanding(h)' = Outstanding(h) /\ manual'[h] = manual[h],
         Cardinality(Outstanding(g))' + manual'[g]
           = Cardinality(Outstanding(g)) + manual[g] - 1,
         Cardinality(Outstanding(g))' \in Nat, IsFiniteSet(Outstanding(g))'
  PROVE  /\ pendingOperations' \in [Groups -> Nat] /\ life' \in [Groups -> BOOLEAN]
         /\ notifyList' \in [Groups -> SUBSET Blocks] /\ releaseCalled' = releaseCalled
         /\ dispatched' \in SUBSET Blocks
         /\ waiting' = waiting /\ asleep' \in BOOLEAN
         /\ GroupInv' /\ WaitInv'
<1>1. life[g] /\ pendingOperations[g] >= 1
      /\ pendingOperations[g] = Cardinality(Outstanding(g)) + manual[g]
  BY Counted
<1>2. /\ pendingOperations' = [pendingOperations EXCEPT ![g] = @ - 1]
      /\ pendingOperations[g] \in Nat
  BY DEF LeaveGroup, IInv, TypeOK
<1>2a. Cardinality(Outstanding(g)) \in Nat
  BY FiniteParts
<1>3. /\ pendingOperations' \in [Groups -> Nat] /\ life' \in [Groups -> BOOLEAN]
      /\ notifyList' \in [Groups -> SUBSET Blocks] /\ releaseCalled' = releaseCalled
      /\ dispatched' \in SUBSET Blocks
      /\ waiting' = waiting /\ asleep' \in BOOLEAN
  <2>1. pendingOperations' \in [Groups -> Nat]
    BY <1>1, <1>2 DEF IInv, TypeOK
  <2>2. releaseCalled' = releaseCalled /\ waiting' = waiting
    BY DEF LeaveGroup
  <2>3. life' \in [Groups -> BOOLEAN] /\ asleep' \in BOOLEAN
    BY DEF LeaveGroup, IInv, TypeOK
  <2>4. notifyList' \in [Groups -> SUBSET Blocks] /\ dispatched' \in SUBSET Blocks
    BY DEF LeaveGroup, IInv, TypeOK
  <2>5. QED
    BY <2>1, <2>2, <2>3, <2>4
<1>4. \A h \in Groups : h # g => life'[h] = life[h]
                               /\ pendingOperations'[h] = pendingOperations[h]
  BY DEF LeaveGroup, IInv, TypeOK
<1>5. ASSUME ~life'[g] PROVE Outstanding(g)' = {} /\ manual'[g] = 0
  <2>1. pendingOperations[g] = 1
    BY <1>1, <1>5 DEF LeaveGroup
  <2>2. Cardinality(Outstanding(g))' = 0 /\ manual'[g] = 0
    BY <2>1, <1>2a, <1>1 DEF IInv, TypeOK
  <2>3. QED
    BY <2>2, FS_EmptySet
<1>6. life'[g] => pendingOperations'[g] = Cardinality(Outstanding(g))' + manual'[g]
  BY <1>2a, <1>1, <1>2 DEF IInv, TypeOK
<1>7. GroupInv'
  <2> SUFFICES ASSUME NEW h \in Groups
               PROVE  IF life'[h]
                        THEN pendingOperations'[h] = Cardinality(Outstanding(h))' + manual'[h]
                        ELSE Outstanding(h)' = {} /\ manual'[h] = 0
    BY DEF GroupInv
  <2>1. CASE h = g
    BY <2>1, <1>5, <1>6
  <2>2. CASE h # g
    BY <2>2, <1>4 DEF IInv, GroupInv
  <2>3. QED
    BY <2>1, <2>2
<1>8. WaitInv'
  <2>1. CASE waiting = g
    BY <2>1, <1>1, <1>2, <1>3 DEF LeaveGroup, IInv, WaitInv, NoLostWakeup, TypeOK, mainVars
  <2>2. CASE waiting # g
    <3>1. asleep' = asleep /\ waiting' = waiting
      BY <2>2 DEF LeaveGroup, mainVars, IInv, TypeOK
    <3>2. waiting # NoGroup => waiting \in Groups
      BY DEF IInv, TypeOK
    <3>3. QED
      BY <2>2, <3>1, <3>2, <1>3, <1>4 DEF IInv, WaitInv, NoLostWakeup
  <2>3. QED
    BY <2>1, <2>2
<1>9. QED
  BY <1>3, <1>7, <1>8

LEMMA GroupCalls ==
  ASSUME IInv, NEW g \in Groups,
         \/ CreateGroup(g) \/ Release(g) \/ Enter(g) \/ BeginWait(g)
         \/ \E b \in Blocks : Notify(b, g)
  PROVE  IInv'
<1> USE DEF IInv
<1>1. UNCHANGED <<entryVars, workerVars, op>>
  BY DEF CreateGroup, Release, Enter, BeginWait, Notify
<1>2. WorkInv'
  BY <1>1, WorkFrame
<1>3. \A h : Outstanding(h)' = Outstanding(h)
  BY <1>1 DEF Outstanding
<1>4. \A h : Cardinality(Outstanding(h)) \in Nat /\ IsFiniteSet(Outstanding(h))
  BY FiniteParts
<1> USE DEF entryVars, workerVars, groupVars, mainVars, CanCall
<1>5. CASE CreateGroup(g)
  <2>1. TypeOK'
    BY <1>5 DEF CreateGroup, TypeOK
  <2>2. Outstanding(g) = {} /\ Cardinality(Outstanding(g)) = 0
    BY <1>5, FS_EmptySet DEF CreateGroup, GroupInv
  <2>3. GroupInv'
    <3>1. life'[g] /\ pendingOperations'[g] = 0 /\ manual'[g] = 0
      BY <1>5 DEF CreateGroup, TypeOK
    <3>2. \A h \in Groups : h # g =>
            life'[h] = life[h] /\ pendingOperations'[h] = pendingOperations[h]
      BY <1>5 DEF CreateGroup, TypeOK
    <3>3. manual' = manual
      BY <1>5 DEF CreateGroup
    <3>4. QED
      BY <1>3, <2>2, <3>1, <3>2, <3>3 DEF GroupInv
  <2>4. WaitInv'
    BY <1>5 DEF CreateGroup, WaitInv, NoLostWakeup
  <2>5. QED
    BY <1>2, <2>1, <2>3, <2>4
<1>6. CASE Release(g)
  <2>1. TypeOK'
    BY <1>6 DEF Release, TypeOK
  <2>2. pendingOperations[g] = 0 => Outstanding(g) = {} /\ manual[g] = 0
    BY <1>6, <1>4, FS_EmptySet DEF Release, GroupInv, TypeOK
  <2>3. GroupInv'
    BY <1>6, <1>3, <2>2 DEF Release, GroupInv, TypeOK
  <2>4. WaitInv'
    BY <1>6 DEF Release, WaitInv, NoLostWakeup, TypeOK
  <2>5. QED
    BY <1>2, <2>1, <2>3, <2>4
<1>7. CASE Enter(g)
  <2>1. TypeOK'
    BY <1>7 DEF Enter, TypeOK
  <2>2. GroupInv'
    BY <1>7, <1>3, <1>4 DEF Enter, GroupInv, TypeOK
  <2>3. WaitInv'
    BY <1>7 DEF Enter, WaitInv, NoLostWakeup, TypeOK
  <2>4. QED
    BY <1>2, <2>1, <2>2, <2>3
<1>8. CASE BeginWait(g)
  <2>1. TypeOK'
    BY <1>8 DEF BeginWait, TypeOK
  <2>2. GroupInv'
    BY <1>8, <1>3 DEF BeginWait, GroupInv
  <2>3. WaitInv'
    BY <1>8, QueueAssumption DEF BeginWait, WaitInv, NoLostWakeup
  <2>4. QED
    BY <1>2, <2>1, <2>2, <2>3
<1>9. CASE \E b \in Blocks : Notify(b, g)
  <2>1. TypeOK'
    <3>1. PICK b \in Blocks : Notify(b, g)
      BY <1>9
    <3>2. notifyList' \in [Groups -> SUBSET Blocks] /\ dispatched' \in SUBSET Blocks
      <4>1. CASE pendingOperations[g] = 0
        <5>1. notifyList' = notifyList /\ dispatched' = dispatched \cup {b}
          BY <3>1, <4>1 DEF Notify
        <5>2. notifyList \in [Groups -> SUBSET Blocks] /\ dispatched \in SUBSET Blocks
          BY DEF TypeOK
        <5>3. QED
          BY <5>1, <5>2
      <4>2. CASE pendingOperations[g] # 0
        <5>1. /\ notifyList' = [notifyList EXCEPT ![g] = @ \cup {b}]
              /\ dispatched' = dispatched
          BY <3>1, <4>2 DEF Notify
        <5>2. notifyList \in [Groups -> SUBSET Blocks] /\ dispatched \in SUBSET Blocks
          BY DEF TypeOK
        <5>3. notifyList[g] \cup {b} \in SUBSET Blocks
          BY <5>2
        <5>4. QED
          BY <5>1, <5>2, <5>3
      <4>3. QED
        BY <4>1, <4>2
    <3>3. UNCHANGED <<entryVars, workerVars, op, life, pendingOperations,
                      releaseCalled, manual, mainVars>>
      BY <3>1 DEF Notify
    <3>4. QED
      BY <3>2, <3>3 DEF TypeOK
  <2>2. GroupInv'
    BY <1>9, <1>3 DEF Notify, GroupInv
  <2>3. WaitInv'
    BY <1>9 DEF Notify, WaitInv, NoLostWakeup, TypeOK
  <2>4. QED
    BY <1>2, <2>1, <2>2, <2>3
<1>10. QED
  BY <1>5, <1>6, <1>7, <1>8, <1>9

\* What main does without naming a group.
LEMMA MainStep ==
  ASSUME IInv,
         \/ \E b \in Blocks : RunNotification(b)
         \/ SpuriousWakeup \/ ContinueWait
  PROVE  IInv'
<1> USE DEF IInv
<1>1. UNCHANGED <<entryVars, workerVars, op>>
  BY DEF RunNotification, SpuriousWakeup, ContinueWait
<1>2. WorkInv'
  BY <1>1, WorkFrame
<1>3. \A h : Outstanding(h)' = Outstanding(h)
  BY <1>1 DEF Outstanding
<1> USE DEF entryVars, workerVars, groupVars, mainVars
<1>4. CASE \E b \in Blocks : RunNotification(b)
  <2>1. /\ UNCHANGED <<entryVars, workerVars, op, groupVars, mainVars>>
        /\ dispatched' \in SUBSET Blocks
    BY <1>4 DEF RunNotification, TypeOK
  <2>2. TypeOK'
    BY <2>1 DEF TypeOK
  <2>3. GroupInv' /\ WaitInv'
    BY <2>1, GroupFrame
  <2>4. QED
    BY <1>2, <2>2, <2>3
<1>5. CASE SpuriousWakeup
  <2>1. TypeOK'
    <3>1. asleep' \in BOOLEAN
      BY <1>5 DEF SpuriousWakeup
    <3>2. UNCHANGED <<entryVars, workerVars, op, groupVars, dispatched, waiting>>
      BY <1>5 DEF SpuriousWakeup
    <3>3. QED
      BY <3>1, <3>2 DEF TypeOK
  <2>2. GroupInv' /\ WaitInv'
    BY <1>5, <1>3 DEF SpuriousWakeup, GroupInv, WaitInv, NoLostWakeup
  <2>3. QED
    BY <1>2, <2>1, <2>2
<1>6. CASE ContinueWait
  <2>1. TypeOK'
    <3>1. waiting' \in Groups \cup {NoGroup}
      BY <1>6 DEF ContinueWait, TypeOK
    <3>2. asleep' \in BOOLEAN
      BY <1>6 DEF ContinueWait, TypeOK
    <3>3. QED
      BY <1>6, <3>1, <3>2 DEF ContinueWait, TypeOK
  <2>2. GroupInv'
    BY <1>6, <1>3 DEF ContinueWait, GroupInv
  <2>3. WaitInv'
    BY <1>6 DEF ContinueWait, WaitInv, NoLostWakeup, TypeOK
  <2>4. QED
    BY <1>2, <2>1, <2>2, <2>3
<1>7. QED
  BY <1>4, <1>5, <1>6

LEMMA ManualLeave == ASSUME IInv, NEW g \in Groups, Leave(g) PROVE IInv'
<1>1. UNCHANGED <<entryVars, workerVars, op>> /\ manual[g] > 0 /\ LeaveGroup(g)
      /\ manual' = [manual EXCEPT ![g] = @ - 1]
  BY DEF Leave
<1>2. WorkInv'
  BY <1>1, WorkFrame DEF IInv
<1>3. \A h : Outstanding(h)' = Outstanding(h)
  BY <1>1 DEF Outstanding
<1>4. \A h : Cardinality(Outstanding(h)) \in Nat /\ IsFiniteSet(Outstanding(h))
  BY FiniteParts
<1>5. manual' \in [Groups -> Nat] /\ manual'[g] = manual[g] - 1
      /\ \A h \in Groups : h # g => manual'[h] = manual[h]
  BY <1>1 DEF IInv, TypeOK
<1>6. Cardinality(Outstanding(g))' + manual'[g] = Cardinality(Outstanding(g)) + manual[g] - 1
  BY <1>3, <1>4, <1>5 DEF IInv, TypeOK
<1>7. /\ pendingOperations' \in [Groups -> Nat] /\ life' \in [Groups -> BOOLEAN]
      /\ notifyList' \in [Groups -> SUBSET Blocks] /\ releaseCalled' = releaseCalled
      /\ dispatched' \in SUBSET Blocks
      /\ waiting' = waiting /\ asleep' \in BOOLEAN
      /\ GroupInv' /\ WaitInv'
  BY <1>1, <1>3, <1>4, <1>5, <1>6, LeaveGroupInv
<1>8. TypeOK'
  BY <1>1, <1>5, <1>7 DEF IInv, TypeOK, entryVars, workerVars
<1>9. QED
  BY <1>2, <1>7, <1>8 DEF IInv

------------------------------------------------------------------------------
(* The operation queue and its workers. *)

\* Whether priorities are respected or not, the operation taken is in the
\* queue and is the first one of its own priority: the list to pop is right.
LEMMA NextIsFirstOfItsPriority ==
  ASSUME TypeOK, QueueInv, QueueConsistency, NEW q \in Queues,
         NEW respect \in BOOLEAN, operationQueue[q] # <<>>
  PROVE  LET o == NextOperation(q, respect)
         IN  /\ o \in Ops /\ op[o] \in OpInfo
             /\ \E k \in DOMAIN operationQueue[q] : operationQueue[q][k] = o
             /\ priorityMap[q][op[o].priority] # <<>>
             /\ Head(priorityMap[q][op[o].priority]) = o
<1> DEFINE queue == operationQueue[q]
           list(p) == priorityMap[q][p]
           used == {p \in Priorities : list(p) # <<>>}
           highest == CHOOSE p \in used : \A r \in used : r <= p
<1>1. queue \in Seq(Ops) /\ \A p \in Priorities : list(p) \in Seq(Ops)
  BY DEF TypeOK
<1>2. \A k \in DOMAIN queue : queue[k] \in Ops /\ op[queue[k]] \in OpInfo
  <2> TAKE k \in DOMAIN queue
  <2>1. queue[k] \in Ops
    BY <1>1
  <2>2. op[queue[k]] # NoOp /\ op[queue[k]] \in OpInfo \cup {NoOp}
    BY <2>1 DEF QueueInv, TypeOK
  <2>3. QED
    BY <2>1, <2>2
<1>3. \A p \in Priorities : IsSelection(list(p), queue, OfPriority(p))
  BY DEF QueueConsistency
<1>4. 1 \in DOMAIN queue
  BY <1>1
<1> DEFINE first == op[queue[1]].priority
<1>5. first \in Priorities /\ queue[1] \in OfPriority(first)
  BY <1>2, <1>4, QueueAssumption DEF OpInfo, OfPriority
<1>6. list(first) # <<>> /\ list(first)[1] = queue[1]
  <2> HIDE DEF queue, list, first
  <2>1. QED
    BY <1>1, <1>3, <1>5, FirstOfSelection DEF queue
<1>7. CASE ~respect
  <2>1. NextOperation(q, respect) = queue[1]
    BY <1>7, <1>4 DEF NextOperation
  <2>2. Head(list(first)) = list(first)[1]
    BY <1>1, <1>5, <1>6
  <2>3. QED
    BY <2>1, <2>2, <1>2, <1>4, <1>6
<1>8. CASE respect
  <2>1. used # {} /\ used \in SUBSET Priorities
    BY <1>5, <1>6
  <2>2. highest \in used
    <3> HIDE DEF used
    <3>1. \E p \in used : \A r \in used : r <= p
      BY <2>1, PriorityAssumption
    <3>2. QED
      BY <3>1
  <2>3. NextOperation(q, respect) = Head(list(highest))
    BY <1>8 DEF NextOperation
  <2> HIDE DEF highest
  <2>4. 1 \in DOMAIN list(highest) /\ Head(list(highest)) = list(highest)[1]
    BY <2>2, <1>1
  <2>5. /\ list(highest)[1] \in OfPriority(highest)
        /\ \E k \in DOMAIN queue : queue[k] = list(highest)[1]
    BY <2>2, <2>4, <1>3 DEF IsSelection
  <2>6. op[list(highest)[1]].priority = highest
    BY <2>5 DEF OfPriority
  <2>7. QED
    BY <2>2, <2>3, <2>4, <2>5, <2>6, <1>2
<1>9. QED
  BY <1>7, <1>8

\* Taking an operation moves it from its queue to the worker.
LEMMA TakeInv == ASSUME IInv, NEW w \in Workers, WorkerTake(w) PROVE IInv'
<1> DEFINE q == wqueue[w]
           queue == operationQueue[q]
           o == NextOperation(q, respectPriority[w])
           n == CHOOSE j \in DOMAIN queue : queue[j] = o
           p == op[o].priority
<1>1. /\ wpc[w] = "locked" /\ queue # <<>> /\ wop[w] = NoOp /\ q \in Queues
      /\ respectPriority[w] \in BOOLEAN
  BY DEF WorkerTake, IInv, WorkInv, WorkerInv, TypeOK
<1>2. /\ o \in Ops /\ op[o] \in OpInfo
      /\ \E k \in DOMAIN queue : queue[k] = o
      /\ priorityMap[q][p] # <<>> /\ Head(priorityMap[q][p]) = o
  BY <1>1, NextIsFirstOfItsPriority DEF IInv, WorkInv
<1>3. n \in DOMAIN queue /\ queue[n] = o
  BY <1>2
<1>4. /\ operationQueue' = [operationQueue EXCEPT ![q] = RemoveAt(@, n)]
      /\ priorityMap' = [priorityMap EXCEPT ![q][p] = Tail(@)]
      /\ wop' = [wop EXCEPT ![w] = o]
      /\ wpc' = [wpc EXCEPT ![w] = "running"]
      /\ UNCHANGED <<threadCount, wqueue, respectPriority, op, groupVars, dispatched,
                     mainVars>>
  BY DEF WorkerTake, PopOperation
<1>5. p \in Priorities /\ op[o] # NoOp /\ o # NoOp
  BY <1>2, QueueAssumption DEF OpInfo
<1> HIDE DEF o, n, p
<1>6. queue \in Seq(Ops) /\ n \in 1 .. Len(queue)
      /\ \A r \in Priorities : priorityMap[q][r] \in Seq(Ops)
  BY <1>1, <1>3 DEF IInv, TypeOK
<1>7. /\ \A k \in DOMAIN queue : queue[k] = o => k = n
      /\ \A k \in DOMAIN queue, v \in Workers : wop[v] # queue[k]
  BY <1>1, <1>3 DEF IInv, WorkInv, QueueInv
<1>8. RemoveAt(queue, n) \in Seq(Ops) /\ Tail(priorityMap[q][p]) \in Seq(Ops)
  BY <1>2, <1>5, <1>6, RemoveAtProperties
<1>9. TypeOK'
  <2>1. operationQueue' \in [Queues -> Seq(Ops)]
    BY <1>1, <1>4, <1>8 DEF IInv, TypeOK
  <2>2. priorityMap' \in [Queues -> [Priorities -> Seq(Ops)]]
    BY <1>1, <1>4, <1>5, <1>8 DEF IInv, TypeOK
  <2>3. wpc' \in [Workers -> {"none", "locked", "running", "leaving"}]
        /\ wop' \in [Workers -> Ops \cup {NoOp}]
    BY <1>2, <1>4 DEF IInv, TypeOK
  <2>4. QED
    BY <1>4, <2>1, <2>2, <2>3 DEF IInv, TypeOK, groupVars, mainVars
<1>10. WorkerInv'
  <2>1. \A v \in Workers : wop[v] # o
    BY <1>3, <1>7
  <2>2. QED
    BY <1>1, <1>4, <1>5, <2>1 DEF IInv, WorkInv, WorkerInv, TypeOK
<1>11. /\ \A r \in Queues : r # q => operationQueue'[r] = operationQueue[r]
                                   /\ priorityMap'[r] = priorityMap[r]
       /\ operationQueue'[q] = RemoveAt(queue, n)
       /\ priorityMap'[q][p] = Tail(priorityMap[q][p])
       /\ \A r \in Priorities : r # p => priorityMap'[q][r] = priorityMap[q][r]
  BY <1>1, <1>4, <1>5 DEF IInv, TypeOK
<1>12. /\ \A k \in DOMAIN operationQueue'[q] :
            /\ Old(n, k) \in DOMAIN queue /\ Old(n, k) # n
            /\ operationQueue'[q][k] = queue[Old(n, k)]
       /\ \A k, m \in DOMAIN operationQueue'[q] : Old(n, k) = Old(n, m) => k = m
  <2>1. \A k, m \in DOMAIN RemoveAt(queue, n) :
          /\ k \in Nat /\ m \in Nat
          /\ k < m <=> Old(n, k) < Old(n, m)
          /\ Old(n, k) \in 1 .. Len(queue)
    BY <1>6, RemoveAtOld
  <2>2. \A k, m \in DOMAIN RemoveAt(queue, n) : Old(n, k) = Old(n, m) => k = m
    BY <2>1
  <2>3. QED
    BY <1>6, <1>11, <2>2, RemoveAtOld
<1>13. QueueInv'
  <2> SUFFICES ASSUME NEW r \in Queues, NEW i \in DOMAIN operationQueue'[r]
               PROVE  /\ op'[operationQueue'[r][i]] # NoOp
                      /\ op'[operationQueue'[r][i]].queue = r
                      /\ \A v \in Workers : wop'[v] # operationQueue'[r][i]
                      /\ \A j \in DOMAIN operationQueue'[r] :
                           operationQueue'[r][j] = operationQueue'[r][i] => j = i
    BY DEF QueueInv
  <2>1. CASE r = q
    BY <2>1, <1>1, <1>3, <1>4, <1>7, <1>12 DEF IInv, WorkInv, QueueInv, TypeOK
  <2>2. CASE r # q
    <3>1. operationQueue'[r] = operationQueue[r] /\ op' = op
      BY <2>2, <1>4, <1>11
    <3>2. operationQueue[r][i] # o
      BY <2>2, <3>1, <1>1, <1>3 DEF IInv, WorkInv, QueueInv
    <3>3. QED
      BY <3>1, <3>2, <1>4 DEF IInv, WorkInv, QueueInv, TypeOK
  <2>3. QED
    BY <2>1, <2>2
<1>14. QueueConsistency'
  <2> SUFFICES ASSUME NEW r \in Queues, NEW s \in Priorities
               PROVE  IsSelection(priorityMap'[r][s], operationQueue'[r], OfPriority(s)')
    BY DEF QueueConsistency, IsSelection
  <2>1. OfPriority(s)' = OfPriority(s)
    BY <1>4 DEF OfPriority
  <2>2. IsSelection(priorityMap[r][s], operationQueue[r], OfPriority(s))
    BY DEF IInv, WorkInv, QueueConsistency
  <2>3. CASE r # q
    BY <2>1, <2>2, <2>3, <1>11
  <2>4. CASE r = q /\ s = p
    BY <2>1, <2>2, <2>4, <1>2, <1>3, <1>6, <1>7, <1>11, SelectionWithoutFirst
  <2>5. CASE r = q /\ s # p
    <3>1. o \notin OfPriority(s)
      BY <2>5 DEF OfPriority, p
    <3>2. QED
      BY <2>1, <2>2, <2>5, <3>1, <1>3, <1>6, <1>11, SelectionWithoutOther
  <2>6. QED
    BY <2>3, <2>4, <2>5
<1>15. ThreadInv'
  <2>1. \A r : WorkersOf(r)' = WorkersOf(r)
    BY <1>4 DEF WorkersOf
  <2>2. NoStrandedOperation'
    <3> SUFFICES ASSUME NEW r \in Queues, operationQueue'[r] # <<>>
                 PROVE  \E v \in WorkersOf(r)' : wpc'[v] # "none"
      BY DEF NoStrandedOperation
    <3>1. CASE r = q
      BY <3>1, <1>1, <1>4 DEF WorkersOf, IInv, TypeOK
    <3>2. CASE r # q
      <4>1. PICK v \in WorkersOf(r) : wpc[v] # "none"
        BY <3>2, <1>11 DEF IInv, WorkInv, ThreadInv, NoStrandedOperation
      <4>2. QED
        BY <4>1, <2>1, <1>4 DEF WorkersOf, IInv, TypeOK
    <3>3. QED
      BY <3>1, <3>2
  <2>3. QED
    BY <2>1, <2>2, <1>4 DEF IInv, WorkInv, ThreadInv, OneThreadIgnoresPriority
<1>16. GroupInv' /\ WaitInv'
  BY <1>4, GroupFrame DEF IInv
<1>17. QED
  BY <1>9, <1>10, <1>13, <1>14, <1>15, <1>16 DEF IInv, WorkInv

LEMMA RunInv == ASSUME IInv, NEW w \in Workers, WorkerRun(w) PROVE IInv'
<1>1. /\ wpc[w] = "running" /\ wpc' = [wpc EXCEPT ![w] = "leaving"]
      /\ UNCHANGED <<entryVars, wqueue, wop, respectPriority, op, groupVars,
                     dispatched, mainVars>>
  BY DEF WorkerRun
<1>2. TypeOK'
  BY <1>1 DEF IInv, TypeOK, entryVars, groupVars, mainVars
<1>3. WorkerInv'
  BY <1>1 DEF IInv, WorkInv, WorkerInv, TypeOK
<1>4. QueueInv' /\ QueueConsistency'
  BY <1>1, QueueFrame DEF IInv, WorkInv, entryVars
<1>5. ThreadInv'
  <2>1. \A r : WorkersOf(r)' = WorkersOf(r)
    BY <1>1 DEF WorkersOf
  <2>2. \A v \in Workers : wpc[v] # "none" => wpc'[v] # "none"
    BY <1>1 DEF IInv, TypeOK
  <2>3. NoStrandedOperation'
    BY <1>1, <2>1, <2>2
    DEF IInv, WorkInv, ThreadInv, NoStrandedOperation, WorkersOf, entryVars
  <2>4. QED
    BY <1>1, <2>1, <2>3
    DEF IInv, WorkInv, ThreadInv, OneThreadIgnoresPriority, entryVars
<1>6. GroupInv' /\ WaitInv'
  BY <1>1, GroupFrame DEF IInv
<1>7. QED
  BY <1>2, <1>3, <1>4, <1>5, <1>6 DEF IInv, WorkInv

\* A worker ends only when its queue is empty: it strands nothing.
LEMMA ExitInv == ASSUME IInv, NEW w \in Workers, WorkerExit(w) PROVE IInv'
<1>01. wqueue[w] \in Queues /\ wop[w] = NoOp
  BY DEF WorkerExit, IInv, WorkInv, WorkerInv, TypeOK
<1>02. PICK q \in Queues : wqueue[w] = q
  BY <1>01
<1>1. /\ wpc[w] = "locked" /\ operationQueue[q] = <<>>
      /\ wpc' = [wpc EXCEPT ![w] = "none"]
      /\ wqueue' = [wqueue EXCEPT ![w] = NoQueue]
      /\ respectPriority' = [respectPriority EXCEPT ![w] = FALSE]
      /\ threadCount' = [threadCount EXCEPT ![q] = @ - 1]
      /\ UNCHANGED <<operationQueue, priorityMap, wop, op, groupVars,
                     dispatched, mainVars>>
  BY <1>02 DEF WorkerExit
<1>2. q \in Queues /\ wop[w] = NoOp /\ w \in WorkersOf(q)
  BY <1>01, <1>02 DEF WorkersOf
<1>3. WorkersOf(q)' = WorkersOf(q) \ {w}
      /\ \A r \in Queues : r # q => WorkersOf(r)' = WorkersOf(r)
  BY <1>1, <1>2, QueueAssumption DEF WorkersOf, IInv, TypeOK
<1>4. threadCount[q] = Cardinality(WorkersOf(q)) /\ threadCount[q] \in Nat
  BY <1>2 DEF IInv, TypeOK, WorkInv, ThreadInv
<1>5. /\ Cardinality(WorkersOf(q))' = threadCount[q] - 1
      /\ threadCount[q] - 1 \in Nat
  <2>1. Cardinality(WorkersOf(q) \ {w}) = Cardinality(WorkersOf(q)) - 1
        /\ Cardinality(WorkersOf(q) \ {w}) \in Nat
    BY <1>2, FiniteParts, FS_RemoveElement, FS_CardinalityType
  <2>2. QED
    BY <2>1, <1>3, <1>4
<1>6. TypeOK'
  <2>1. threadCount' \in [Queues -> Nat]
    BY <1>1, <1>5 DEF IInv, TypeOK
  <2>2. wpc' \in [Workers -> {"none", "locked", "running", "leaving"}]
        /\ wqueue' \in [Workers -> Queues \cup {NoQueue}]
        /\ respectPriority' \in [Workers -> BOOLEAN]
    BY <1>1 DEF IInv, TypeOK
  <2>3. QED
    BY <1>1, <2>1, <2>2 DEF IInv, TypeOK, groupVars, mainVars
<1>7. WorkerInv'
  BY <1>1, <1>2 DEF IInv, WorkInv, WorkerInv, TypeOK
<1>8. QueueInv' /\ QueueConsistency'
  BY <1>1, QueueFrame DEF IInv, WorkInv
<1>9. ThreadInv'
  <2>1. \A r \in Queues : threadCount'[r] = Cardinality(WorkersOf(r))'
    <3> SUFFICES ASSUME NEW r \in Queues PROVE threadCount'[r] = Cardinality(WorkersOf(r))'
      OBVIOUS
    <3>1. CASE r = q
      BY <3>1, <1>1, <1>5 DEF IInv, TypeOK
    <3>2. CASE r # q
      <4>1. threadCount'[r] = threadCount[r] /\ WorkersOf(r)' = WorkersOf(r)
        BY <3>2, <1>1, <1>3 DEF IInv, TypeOK
      <4>2. QED
        BY <4>1 DEF IInv, WorkInv, ThreadInv
    <3>3. QED
      BY <3>1, <3>2
  <2>2. NoStrandedOperation'
    <3> SUFFICES ASSUME NEW r \in Queues, operationQueue[r] # <<>>
                 PROVE  \E v \in WorkersOf(r)' : wpc'[v] # "none"
      BY <1>1 DEF NoStrandedOperation
    <3>1. PICK v \in WorkersOf(r) : wpc[v] # "none"
      BY DEF IInv, WorkInv, ThreadInv, NoStrandedOperation
    <3>2. r # q /\ v # w
      BY <3>1, <1>1, <1>02 DEF WorkersOf
    <3>3. QED
      BY <3>1, <3>2, <1>1, <1>3 DEF WorkersOf, IInv, TypeOK
  <2>3. OneThreadIgnoresPriority'
    BY <1>1, <1>2, <1>02, QueueAssumption
    DEF IInv, TypeOK, WorkInv, ThreadInv, OneThreadIgnoresPriority, WorkersOf
  <2>4. QED
    BY <2>1, <2>2, <2>3 DEF ThreadInv
<1>10. GroupInv' /\ WaitInv'
  BY <1>1, GroupFrame DEF IInv
<1>11. QED
  BY <1>6, <1>7, <1>8, <1>9, <1>10 DEF IInv, WorkInv

\* Leaving forgets an operation that no queue and no other worker has.
LEMMA WorkerLeaveInv == ASSUME IInv, NEW w \in Workers, WorkerLeave(w) PROVE IInv'
<1>1. /\ wpc[w] = "leaving" /\ wop[w] \in Ops /\ op[wop[w]] # NoOp
  BY DEF WorkerLeave, IInv, WorkInv, WorkerInv, TypeOK
<1>2. PICK o \in Ops : wop[w] = o
  BY <1>1
<1>3. op[o] \in OpInfo /\ op[o] # NoOp
  BY <1>1, <1>2 DEF IInv, TypeOK
<1>4. PICK g \in Groups : op[o].group = g
  BY <1>3 DEF OpInfo
<1>5. /\ LeaveGroup(g)
      /\ wpc' = [wpc EXCEPT ![w] = "locked"]
      /\ wop' = [wop EXCEPT ![w] = NoOp]
      /\ op' = [op EXCEPT ![o] = NoOp]
      /\ UNCHANGED <<entryVars, wqueue, respectPriority, manual>>
  BY <1>2, <1>4 DEF WorkerLeave
<1>6. \A q \in Queues : \A k \in DOMAIN operationQueue[q] : operationQueue[q][k] # o
  BY <1>2 DEF IInv, WorkInv, QueueInv
<1>7. \A q \in Queues : \A k \in DOMAIN operationQueue[q] :
        /\ operationQueue[q][k] \in Ops
        /\ op'[operationQueue[q][k]] = op[operationQueue[q][k]]
  <2> SUFFICES ASSUME NEW q \in Queues, NEW k \in DOMAIN operationQueue[q]
               PROVE  /\ operationQueue[q][k] \in Ops
                      /\ op'[operationQueue[q][k]] = op[operationQueue[q][k]]
    OBVIOUS
  <2>1. operationQueue[q] \in Seq(Ops)
    BY DEF IInv, TypeOK
  <2>2. operationQueue[q][k] \in Ops
    BY <2>1
  <2>3. QED
    BY <2>2, <1>5, <1>6 DEF IInv, TypeOK
<1>8. /\ Outstanding(g)' = Outstanding(g) \ {o} /\ o \in Outstanding(g)
      /\ \A h \in Groups : h # g => Outstanding(h)' = Outstanding(h)
  BY <1>3, <1>4, <1>5 DEF Outstanding, IInv, TypeOK
<1>9. /\ Cardinality(Outstanding(g))' = Cardinality(Outstanding(g)) - 1
      /\ Cardinality(Outstanding(g))' \in Nat /\ IsFiniteSet(Outstanding(g))'
  <2>1. /\ IsFiniteSet(Outstanding(g) \ {o})
        /\ Cardinality(Outstanding(g) \ {o}) = Cardinality(Outstanding(g)) - 1
        /\ Cardinality(Outstanding(g) \ {o}) \in Nat
    BY <1>8, FiniteParts, FS_RemoveElement, FS_CardinalityType
  <2>2. QED
    BY <2>1, <1>8
<1>10. /\ pendingOperations' \in [Groups -> Nat] /\ life' \in [Groups -> BOOLEAN]
       /\ notifyList' \in [Groups -> SUBSET Blocks] /\ releaseCalled' = releaseCalled
       /\ dispatched' \in SUBSET Blocks
       /\ waiting' = waiting /\ asleep' \in BOOLEAN
       /\ GroupInv' /\ WaitInv'
  <2>1. manual' = manual /\ manual \in [Groups -> Nat]
    BY <1>5 DEF IInv, TypeOK
  <2>2. Cardinality(Outstanding(g))' + manual'[g] = Cardinality(Outstanding(g)) + manual[g] - 1
    BY <2>1, <1>9, FiniteParts
  <2>3. QED
    BY <2>1, <2>2, <1>5, <1>8, <1>9, LeaveGroupInv
<1>11. TypeOK'
  <2>1. /\ wpc' \in [Workers -> {"none", "locked", "running", "leaving"}]
        /\ wop' \in [Workers -> Ops \cup {NoOp}]
        /\ op' \in [Ops -> OpInfo \cup {NoOp}]
    BY <1>5 DEF IInv, TypeOK
  <2>2. QED
    BY <1>5, <1>10, <2>1 DEF IInv, TypeOK, entryVars
<1>12. WorkerInv'
  <2>1. \A v \in Workers : v # w => wop[v] # o
    BY <1>2, QueueAssumption DEF IInv, WorkInv, WorkerInv
  <2>2. \A v \in Workers : v # w /\ wop[v] # NoOp => op'[wop[v]] # NoOp
    BY <1>5, <2>1 DEF IInv, WorkInv, WorkerInv, TypeOK
  <2>3. QED
    BY <1>1, <1>5, <2>2 DEF IInv, WorkInv, WorkerInv, TypeOK
<1>13. QueueInv'
  <2> SUFFICES ASSUME NEW q \in Queues, NEW i \in DOMAIN operationQueue[q]
               PROVE  /\ op'[operationQueue[q][i]] # NoOp
                      /\ op'[operationQueue[q][i]].queue = q
                      /\ \A v \in Workers : wop'[v] # operationQueue[q][i]
                      /\ \A j \in DOMAIN operationQueue[q] :
                           operationQueue[q][j] = operationQueue[q][i] => j = i
    BY <1>5 DEF QueueInv, entryVars
  <2>1. \A v \in Workers : wop'[v] = wop[v] \/ wop'[v] = NoOp
    BY <1>5 DEF IInv, TypeOK
  <2>2. operationQueue[q][i] # NoOp
    BY <1>7, QueueAssumption
  <2>3. QED
    BY <2>1, <2>2, <1>7 DEF IInv, WorkInv, QueueInv
<1>14. QueueConsistency'
  <2> SUFFICES ASSUME NEW q \in Queues, NEW p \in Priorities
               PROVE  IsSelection(priorityMap[q][p], operationQueue[q], OfPriority(p)')
    BY <1>5 DEF QueueConsistency, IsSelection, entryVars
  <2>1. IsSelection(priorityMap[q][p], operationQueue[q], OfPriority(p))
    BY DEF IInv, WorkInv, QueueConsistency
  <2>2. \A k \in DOMAIN operationQueue[q] :
          operationQueue[q][k] \in OfPriority(p) <=> operationQueue[q][k] \in OfPriority(p)'
    BY <1>7 DEF OfPriority
  <2>3. QED
    BY <2>1, <2>2, SelectionBySet
<1>15. ThreadInv'
  <2>1. \A r : WorkersOf(r)' = WorkersOf(r)
    BY <1>5 DEF WorkersOf
  <2>2. \A v \in Workers : wpc[v] # "none" => wpc'[v] # "none"
    BY <1>5 DEF IInv, TypeOK
  <2>3. NoStrandedOperation'
    BY <1>5, <2>1, <2>2
    DEF IInv, WorkInv, ThreadInv, NoStrandedOperation, WorkersOf, entryVars
  <2>4. QED
    BY <1>5, <2>1, <2>3
    DEF IInv, WorkInv, ThreadInv, OneThreadIgnoresPriority, entryVars
<1>16. QED
  BY <1>10, <1>11, <1>12, <1>13, <1>14, <1>15 DEF IInv, WorkInv

\* Scheduling adds an operation at the end of its queue and of its priority's
\* list, to its group, and a thread unless there are enough: at least one.
LEMMA ScheduleInv ==
  ASSUME IInv, NEW o \in Ops, NEW g \in Groups, NEW q \in Queues,
         NEW p \in Priorities, NEW maxThreads \in {MaxThreads - 1, MaxThreads},
         Schedule(o, g, q, p, maxThreads)
  PROVE  IInv'
<1> DEFINE info == [queue |-> q, group |-> g, priority |-> p]
           NewWorker ==
             /\ wpc' \in [Workers -> {"none", "locked", "running", "leaving"}]
             /\ wqueue' \in [Workers -> Queues \cup {NoQueue}]
             /\ threadCount' \in [Queues -> Nat]
             /\ respectPriority' \in [Workers -> BOOLEAN]
             /\ \A v \in Workers : /\ wpc'[v] = "none" <=> wqueue'[v] = NoQueue
                                   /\ wpc'[v] \in {"running", "leaving"} <=> wop[v] # NoOp
             /\ ThreadInv'
<1>1. /\ op[o] = NoOp /\ life[g] /\ waiting = NoGroup
      /\ op' = [op EXCEPT ![o] = info]
      /\ operationQueue' = [operationQueue EXCEPT ![q] = Append(@, o)]
      /\ priorityMap' = [priorityMap EXCEPT ![q][p] = Append(@, o)]
      /\ pendingOperations' = [pendingOperations EXCEPT ![g] = @ + 1]
      /\ UNCHANGED <<wop, life, notifyList, releaseCalled, manual, dispatched, mainVars>>
  BY DEF Schedule, CanCall, workerVars
<1>2. info \in OpInfo /\ info # NoOp
  BY QueueAssumption DEF OpInfo
<1>3. \A r \in Queues : operationQueue[r] \in Seq(Ops)
      /\ \A s \in Priorities : priorityMap[r][s] \in Seq(Ops)
  BY DEF IInv, TypeOK
<1>4. \A r \in Queues : \A k \in DOMAIN operationQueue[r] :
        /\ operationQueue[r][k] \in Ops /\ operationQueue[r][k] # o
        /\ op'[operationQueue[r][k]] = op[operationQueue[r][k]]
  <2> SUFFICES ASSUME NEW r \in Queues, NEW k \in DOMAIN operationQueue[r]
               PROVE  /\ operationQueue[r][k] \in Ops /\ operationQueue[r][k] # o
                      /\ op'[operationQueue[r][k]] = op[operationQueue[r][k]]
    OBVIOUS
  <2>1. operationQueue[r][k] \in Ops
    BY <1>3
  <2>2. operationQueue[r][k] # o
    BY <1>1 DEF IInv, WorkInv, QueueInv
  <2>3. QED
    BY <2>1, <2>2, <1>1 DEF IInv, TypeOK
<1>5. \A v \in Workers : wop[v] # o
  BY <1>1, QueueAssumption DEF IInv, WorkInv, WorkerInv
<1>6. /\ \A r \in Queues : r # q => operationQueue'[r] = operationQueue[r]
                                  /\ priorityMap'[r] = priorityMap[r]
      /\ operationQueue'[q] = Append(operationQueue[q], o)
      /\ priorityMap'[q][p] = Append(priorityMap[q][p], o)
      /\ \A s \in Priorities : s # p => priorityMap'[q][s] = priorityMap[q][s]
      /\ op'[o] = info
  BY <1>1 DEF IInv, TypeOK
<1>7. ASSUME threadCount[q] >= maxThreads,
             UNCHANGED <<wpc, wqueue, respectPriority, threadCount>>
      PROVE  NewWorker
  <2>1. \A r : WorkersOf(r)' = WorkersOf(r)
    BY <1>7 DEF WorkersOf
  <2>2. \E w \in WorkersOf(q) : wpc[w] # "none"
    <3>1. Cardinality(WorkersOf(q)) # 0
      BY <1>7, QueueAssumption DEF IInv, WorkInv, ThreadInv, TypeOK
    <3>2. WorkersOf(q) # {}
      BY <3>1, FS_EmptySet
    <3>3. QED
      BY <3>2, QueueAssumption DEF WorkersOf, IInv, WorkInv, WorkerInv
  <2>3. NoStrandedOperation'
    BY <2>1, <2>2, <1>6, <1>7 DEF IInv, WorkInv, ThreadInv, NoStrandedOperation
  <2>4. ThreadInv'
    BY <2>1, <2>3, <1>7 DEF IInv, WorkInv, ThreadInv, OneThreadIgnoresPriority
  <2>5. \A v \in Workers : /\ wpc'[v] = "none" <=> wqueue'[v] = NoQueue
                           /\ wpc'[v] \in {"running", "leaving"} <=> wop[v] # NoOp
    BY <1>7 DEF IInv, WorkInv, WorkerInv
  <2>6. /\ wpc' \in [Workers -> {"none", "locked", "running", "leaving"}]
        /\ wqueue' \in [Workers -> Queues \cup {NoQueue}]
        /\ threadCount' \in [Queues -> Nat]
        /\ respectPriority' \in [Workers -> BOOLEAN]
    BY <1>7 DEF IInv, TypeOK
  <2>7. QED
    BY <2>4, <2>5, <2>6 DEF NewWorker
<1>8. ASSUME NEW w \in Workers,
             wpc[w] = "none",
             wpc' = [wpc EXCEPT ![w] = "locked"],
             wqueue' = [wqueue EXCEPT ![w] = q],
             respectPriority' = [respectPriority EXCEPT ![w] = threadCount[q] > 0],
             threadCount' = [threadCount EXCEPT ![q] = @ + 1]
      PROVE  NewWorker
  <2>1. wqueue[w] = NoQueue /\ w \notin WorkersOf(q)
    BY <1>8, QueueAssumption DEF IInv, WorkInv, WorkerInv, WorkersOf
  <2>2. WorkersOf(q)' = WorkersOf(q) \cup {w}
        /\ \A r \in Queues : r # q => WorkersOf(r)' = WorkersOf(r)
    BY <2>1, <1>8, QueueAssumption DEF WorkersOf, IInv, TypeOK
  <2>3. Cardinality(WorkersOf(q))' = Cardinality(WorkersOf(q)) + 1
    BY <2>1, <2>2, FiniteParts, FS_AddElement
  <2>4. \A r \in Queues : threadCount'[r] = Cardinality(WorkersOf(r))'
    BY <2>2, <2>3, <1>8 DEF IInv, WorkInv, ThreadInv, TypeOK
  <2>5. NoStrandedOperation'
    <3> SUFFICES ASSUME NEW r \in Queues, operationQueue'[r] # <<>>
                 PROVE  \E v \in WorkersOf(r)' : wpc'[v] # "none"
      BY DEF NoStrandedOperation
    <3>1. CASE r = q
      BY <3>1, <2>2, <1>8 DEF IInv, TypeOK
    <3>2. CASE r # q
      <4>1. PICK v \in WorkersOf(r) : wpc[v] # "none"
        BY <3>2, <1>6 DEF IInv, WorkInv, ThreadInv, NoStrandedOperation
      <4>2. QED
        BY <4>1, <3>2, <2>2, <1>8 DEF WorkersOf, IInv, TypeOK
    <3>3. QED
      BY <3>1, <3>2
  <2>6. OneThreadIgnoresPriority'
    <3> SUFFICES ASSUME NEW r \in Queues, NEW u \in WorkersOf(r)', NEW v \in WorkersOf(r)',
                        ~respectPriority'[u], ~respectPriority'[v]
                 PROVE  u = v
      BY DEF OneThreadIgnoresPriority
    <3>1. \A x \in Workers : x # w => respectPriority'[x] = respectPriority[x]
          /\ (~respectPriority'[w] => ~(threadCount[q] > 0))
      BY <1>8 DEF IInv, TypeOK
    <3>2. CASE r # q
      BY <3>1, <3>2, <2>2, <1>8, <2>1, QueueAssumption
      DEF WorkersOf, IInv, WorkInv, ThreadInv, OneThreadIgnoresPriority
    <3>3. CASE r = q /\ threadCount[q] > 0
      BY <3>1, <3>3, <2>2
      DEF WorkersOf, IInv, WorkInv, ThreadInv, OneThreadIgnoresPriority
    <3>4. CASE r = q /\ ~(threadCount[q] > 0)
      <4>1. threadCount[q] = 0
        BY <3>4 DEF IInv, TypeOK
      <4>2. WorkersOf(q) = {}
        BY <4>1, FiniteParts, FS_EmptySet DEF IInv, WorkInv, ThreadInv
      <4>3. QED
        BY <3>4, <4>2, <2>2
    <3>5. QED
      BY <3>2, <3>3, <3>4
  <2>7. ThreadInv'
    BY <2>4, <2>5, <2>6 DEF ThreadInv
  <2>8. /\ wpc' \in [Workers -> {"none", "locked", "running", "leaving"}]
        /\ wqueue' \in [Workers -> Queues \cup {NoQueue}]
        /\ threadCount' \in [Queues -> Nat]
    BY <1>8 DEF IInv, TypeOK
  <2>9. respectPriority' \in [Workers -> BOOLEAN]
    <3>1. (threadCount[q] > 0) \in BOOLEAN
      OBVIOUS
    <3>2. QED
      BY <1>8, <3>1 DEF IInv, TypeOK
  <2>10. \A v \in Workers : /\ wpc'[v] = "none" <=> wqueue'[v] = NoQueue
                            /\ wpc'[v] \in {"running", "leaving"} <=> wop[v] # NoOp
    <3> SUFFICES ASSUME NEW v \in Workers
                 PROVE  /\ wpc'[v] = "none" <=> wqueue'[v] = NoQueue
                        /\ wpc'[v] \in {"running", "leaving"} <=> wop[v] # NoOp
      OBVIOUS
    <3>1. CASE v = w
      BY <3>1, <1>8, QueueAssumption DEF IInv, WorkInv, WorkerInv, TypeOK
    <3>2. CASE v # w
      BY <3>2, <1>8 DEF IInv, WorkInv, WorkerInv, TypeOK
    <3>3. QED
      BY <3>1, <3>2
  <2>11. QED
    BY <2>7, <2>8, <2>9, <2>10 DEF NewWorker
<1>9. NewWorker
  <2>1. CASE threadCount[q] < maxThreads
    BY <2>1, <1>8 DEF Schedule
  <2>2. CASE ~(threadCount[q] < maxThreads)
    <3>1. UNCHANGED <<wpc, wqueue, respectPriority, threadCount>>
      BY <2>2 DEF Schedule, workerVars
    <3>2. threadCount[q] \in Nat /\ maxThreads \in Int
      BY QueueAssumption DEF IInv, TypeOK
    <3>3. QED
      BY <2>2, <3>1, <3>2, <1>7
  <2>3. QED
    BY <2>1, <2>2
<1>10. TypeOK'
  <2>1. operationQueue' \in [Queues -> Seq(Ops)]
    BY <1>1, <1>3 DEF IInv, TypeOK
  <2>2. priorityMap' \in [Queues -> [Priorities -> Seq(Ops)]]
    <3>1. Append(priorityMap[q][p], o) \in Seq(Ops)
      BY <1>3
    <3>2. QED
      BY <1>1, <3>1 DEF IInv, TypeOK
  <2>3. op' \in [Ops -> OpInfo \cup {NoOp}] /\ pendingOperations' \in [Groups -> Nat]
    BY <1>1, <1>2 DEF IInv, TypeOK
  <2>4. QED
    BY <1>1, <1>9, <2>1, <2>2, <2>3 DEF IInv, TypeOK, mainVars, NewWorker
<1>11. WorkerInv'
  <2>1. \A v \in Workers : wop[v] # NoOp => op'[wop[v]] # NoOp
    BY <1>1, <1>2, <1>5 DEF IInv, WorkInv, WorkerInv, TypeOK
  <2>2. QED
    BY <1>1, <1>9, <2>1 DEF IInv, WorkInv, WorkerInv, NewWorker
<1>12. QueueInv'
  <2> SUFFICES ASSUME NEW r \in Queues, NEW i \in DOMAIN operationQueue'[r]
               PROVE  /\ op'[operationQueue'[r][i]] # NoOp
                      /\ op'[operationQueue'[r][i]].queue = r
                      /\ \A v \in Workers : wop[v] # operationQueue'[r][i]
                      /\ \A j \in DOMAIN operationQueue'[r] :
                           operationQueue'[r][j] = operationQueue'[r][i] => j = i
    BY <1>1 DEF QueueInv
  <2>1. CASE r # q
    BY <2>1, <1>4, <1>6 DEF IInv, WorkInv, QueueInv
  <2>2. CASE r = q
    <3> DEFINE queue == operationQueue[q]
               longer == operationQueue'[q]
    <3>1. /\ DOMAIN longer = DOMAIN queue \cup {Len(queue) + 1}
          /\ \A k \in DOMAIN queue : longer[k] = queue[k]
          /\ longer[Len(queue) + 1] = o
      BY <1>3, <1>6
    <3>2. CASE i = Len(queue) + 1
      BY <2>2, <3>1, <3>2, <1>2, <1>4, <1>5, <1>6
    <3>3. CASE i \in DOMAIN queue
      <4>1. longer[i] = queue[i] /\ longer[i] # o /\ op'[longer[i]] = op[longer[i]]
        BY <3>1, <3>3, <1>4
      <4>2. op[queue[i]] # NoOp /\ op[queue[i]].queue = q
            /\ \A v \in Workers : wop[v] # queue[i]
        BY <3>3 DEF IInv, WorkInv, QueueInv
      <4>3. \A j \in DOMAIN longer : longer[j] = longer[i] => j = i
        <5> SUFFICES ASSUME NEW j \in DOMAIN longer, longer[j] = longer[i] PROVE j = i
          OBVIOUS
        <5>1. j \in DOMAIN queue /\ queue[j] = queue[i]
          BY <3>1, <4>1
        <5>2. QED
          BY <5>1, <3>3 DEF IInv, WorkInv, QueueInv
      <4>4. QED
        BY <2>2, <4>1, <4>2, <4>3
    <3>4. QED
      BY <2>2, <3>1, <3>2, <3>3
  <2>3. QED
    BY <2>1, <2>2
<1>13. QueueConsistency'
  <2> SUFFICES ASSUME NEW r \in Queues, NEW s \in Priorities
               PROVE  IsSelection(priorityMap'[r][s], operationQueue'[r], OfPriority(s)')
    BY DEF QueueConsistency, IsSelection
  <2>1. IsSelection(priorityMap[r][s], operationQueue[r], OfPriority(s)')
    <3>1. IsSelection(priorityMap[r][s], operationQueue[r], OfPriority(s))
      BY DEF IInv, WorkInv, QueueConsistency
    <3>2. \A k \in DOMAIN operationQueue[r] :
            operationQueue[r][k] \in OfPriority(s) <=> operationQueue[r][k] \in OfPriority(s)'
      BY <1>4 DEF OfPriority
    <3>3. QED
      BY <3>1, <3>2, SelectionBySet
  <2>2. o \in OfPriority(s)' <=> s = p
    BY <1>2, <1>6 DEF OfPriority
  <2>3. CASE r # q
    BY <2>1, <2>3, <1>6
  <2>4. CASE r = q /\ s = p
    BY <2>1, <2>2, <2>4, <1>3, <1>4, <1>6, SelectionAndNew
  <2>5. CASE r = q /\ s # p
    BY <2>1, <2>2, <2>5, <1>3, <1>6, SelectionAndOther
  <2>6. QED
    BY <2>3, <2>4, <2>5
<1>14. GroupInv'
  <2>1. o \notin Outstanding(g) /\ Outstanding(g)' = Outstanding(g) \cup {o}
        /\ \A h \in Groups : h # g => Outstanding(h)' = Outstanding(h)
    BY <1>1, <1>2 DEF Outstanding, IInv, TypeOK
  <2>2. Cardinality(Outstanding(g))' = Cardinality(Outstanding(g)) + 1
    BY <2>1, FiniteParts, FS_AddElement
  <2>3. Cardinality(Outstanding(g)) \in Nat
    BY FiniteParts
  <2>4. life' = life /\ manual' = manual /\ pendingOperations'[g] = pendingOperations[g] + 1
        /\ \A h \in Groups : h # g => pendingOperations'[h] = pendingOperations[h]
    BY <1>1 DEF IInv, TypeOK
  <2>5. pendingOperations[g] = Cardinality(Outstanding(g)) + manual[g] /\ manual[g] \in Nat
    BY <1>1 DEF IInv, GroupInv, TypeOK
  <2>6. pendingOperations'[g] = Cardinality(Outstanding(g))' + manual[g]
    BY <2>2, <2>3, <2>4, <2>5
  <2>7. QED
    BY <2>1, <2>4, <2>6, <1>1 DEF IInv, GroupInv
<1>15. WaitInv'
  BY <1>1 DEF IInv, WaitInv, NoLostWakeup, mainVars
<1>16. QED
  BY <1>9, <1>10, <1>11, <1>12, <1>13, <1>14, <1>15 DEF IInv, WorkInv, NewWorker

------------------------------------------------------------------------------
LEMMA StepIInv == IInv /\ [Next]_vars => IInv'
<1> SUFFICES ASSUME IInv, [Next]_vars PROVE IInv'
  OBVIOUS
<1>1. ASSUME NEW g \in Groups,
             \/ CreateGroup(g) \/ Release(g) \/ Enter(g) \/ BeginWait(g)
             \/ \E b \in Blocks : Notify(b, g)
      PROVE  IInv'
  BY <1>1, GroupCalls
<1>2. ASSUME NEW g \in Groups, Leave(g) PROVE IInv'
  BY <1>2, ManualLeave
<1>3. ASSUME NEW g \in Groups, NEW o \in Ops, NEW q \in Queues, NEW p \in Priorities,
             NEW maxThreads \in {MaxThreads - 1, MaxThreads},
             Schedule(o, g, q, p, maxThreads)
      PROVE  IInv'
  BY <1>3, ScheduleInv
<1>4. CASE \/ \E b \in Blocks : RunNotification(b)
           \/ SpuriousWakeup \/ ContinueWait
  BY <1>4, MainStep
<1>5. ASSUME NEW w \in Workers, Work(w) PROVE IInv'
  BY <1>5, TakeInv, RunInv, WorkerLeaveInv, ExitInv DEF Work
<1>6. CASE UNCHANGED vars
  <2>1. WorkInv'
    BY <1>6, WorkFrame DEF IInv, vars
  <2>2. GroupInv' /\ WaitInv'
    BY <1>6, GroupFrame DEF IInv, vars
  <2>3. TypeOK'
    BY <1>6 DEF IInv, TypeOK, vars, entryVars, workerVars, groupVars, mainVars
  <2>4. QED
    BY <2>1, <2>2, <2>3 DEF IInv
<1>7. QED
  BY <1>1, <1>2, <1>3, <1>4, <1>5, <1>6 DEF Next

\* The state has its types, and the strengthened invariant holds, in every
\* reachable state of the queue (_ASAsyncTransaction.mm:98-316).
THEOREM Invariance == Spec => []IInv
BY InitIInv, StepIInv, PTL DEF Spec

\* No operation is left behind without a thread: a worker gives up only under
\* the mutex with its queue empty (_ASAsyncTransaction.mm:234-260).
THEOREM NothingIsStranded == Spec => []NoStrandedOperation
<1>1. IInv => NoStrandedOperation
  BY DEF IInv, WorkInv, ThreadInv
<1>2. QED
  BY <1>1, Invariance, PTL

\* The two indexes of a queue's operations agree, so the assertion "Queue
\* inconsistency" cannot fire (_ASAsyncTransaction.mm:188).
THEOREM QueuesAreConsistent == Spec => []QueueConsistency
<1>1. IInv => QueueConsistency
  BY DEF IInv, WorkInv
<1>2. QED
  BY <1>1, Invariance, PTL

\* A group's counter is the number of its operations and entries that have
\* not left, a queue's the number of its threads (_ASAsyncTransaction.mm:139-152).
THEOREM CountersAreExact == Spec => []CountersExact
<1>1. IInv => CountersExact
  BY DEF IInv, WorkInv, ThreadInv, GroupInv, CountersExact
<1>2. QED
  BY <1>1, Invariance, PTL

\* Nobody uses a deleted group, and main never sleeps on a finished one
\* (_ASAsyncTransaction.mm:161-170, 294-310).
THEOREM GroupsAreSafe == Spec => [](GroupOutlivesItsUsers /\ NoLostWakeup)
<1>1. ASSUME IInv PROVE GroupOutlivesItsUsers /\ NoLostWakeup
  <2>1. NoLostWakeup
    BY <1>1 DEF IInv, WaitInv
  <2>2. ASSUME NEW g \in Groups, Outstanding(g) # {} \/ manual[g] > 0 PROVE life[g]
    BY <1>1, <2>2, Counted
  <2>3. ASSUME NEW g \in Groups, waiting = g PROVE life[g]
    BY <1>1, <2>3, QueueAssumption DEF IInv, WaitInv
  <2>4. QED
    BY <2>1, <2>2, <2>3 DEF GroupOutlivesItsUsers
<1>2. QED
  BY <1>1, Invariance, PTL

\* At most one thread of a queue ignores priorities (_ASAsyncTransaction.mm:236-237).
THEOREM OneThreadAtMost == Spec => []OneThreadIgnoresPriority
<1>1. IInv => OneThreadIgnoresPriority
  BY DEF IInv, WorkInv, ThreadInv
<1>2. QED
  BY <1>1, Invariance, PTL

\* Every step but WorkerTake hands no operation to a worker.
LEMMA OnlyTakeStarts ==
  ASSUME IInv, [Next]_vars, \A w \in Workers : ~WorkerTake(w)
  PROVE  \A v \in Workers : wop'[v] \in {wop[v], NoOp}
<1> USE DEF IInv, TypeOK, workerVars
<1>1. ASSUME NEW g \in Groups,
             \/ CreateGroup(g) \/ Release(g) \/ Enter(g) \/ Leave(g) \/ BeginWait(g)
             \/ \E b \in Blocks : Notify(b, g)
      PROVE  wop' = wop
  BY <1>1 DEF CreateGroup, Release, Enter, Leave, BeginWait, Notify
<1>2. ASSUME NEW g \in Groups, NEW o \in Ops, NEW q \in Queues, NEW p \in Priorities,
             NEW maxThreads \in {MaxThreads - 1, MaxThreads},
             Schedule(o, g, q, p, maxThreads)
      PROVE  wop' = wop
  BY <1>2 DEF Schedule
<1>3. CASE \/ \E b \in Blocks : RunNotification(b)
           \/ SpuriousWakeup \/ ContinueWait
  BY <1>3 DEF RunNotification, SpuriousWakeup, ContinueWait
<1>4. ASSUME NEW w \in Workers, Work(w) PROVE wop' \in {wop, [wop EXCEPT ![w] = NoOp]}
  BY <1>4 DEF Work, WorkerRun, WorkerLeave, WorkerExit
<1>5. CASE UNCHANGED vars
  BY <1>5 DEF vars
<1>6. CASE wop' = wop
  BY <1>6
<1>7. ASSUME NEW w \in Workers, Work(w)
      PROVE  \A v \in Workers : wop'[v] \in {wop[v], NoOp}
  BY <1>4, <1>7
<1>8. QED
  BY <1>1, <1>2, <1>3, <1>5, <1>6, <1>7 DEF Next

\* Operations of equal priority start in the order they were scheduled, for
\* any number of threads (popNextOperation, _ASAsyncTransaction.mm:172-199).
THEOREM FifoHolds == Spec => FifoWithinPriority
<1>1. IInv /\ [Next]_vars => [StartsInOrder]_vars
  <2> SUFFICES ASSUME IInv, [Next]_vars, NEW q \in Queues,
                      NEW i \in DOMAIN operationQueue[q],
                      NEW j \in DOMAIN operationQueue[q],
                      i < j, NEW w \in Workers, wop'[w] = operationQueue[q][j],
                      op[operationQueue[q][i]].priority = op[operationQueue[q][j]].priority
               PROVE  FALSE
    BY DEF StartsInOrder
  <2> DEFINE queue == operationQueue[q]
             r == queue[j]
             p == op[r].priority
             list == priorityMap[q][p]
  <2>1. /\ queue \in Seq(Ops) /\ queue[i] \in Ops /\ r \in Ops
        /\ op[queue[i]] # NoOp /\ op[r] \in OpInfo /\ op[r].queue = q
        /\ \A v \in Workers : wop[v] # r
        /\ queue[i] # r
    <3>1. queue \in Seq(Ops) /\ queue[i] \in Ops /\ r \in Ops
      BY DEF IInv, TypeOK
    <3>2. /\ op[queue[i]] # NoOp /\ op[r] # NoOp /\ op[r].queue = q
          /\ \A v \in Workers : wop[v] # r
          /\ queue[i] = r => i = j
      BY DEF IInv, WorkInv, QueueInv
    <3>3. op[r] \in OpInfo
      BY <3>1, <3>2 DEF IInv, TypeOK
    <3>4. i # j
      BY <3>1
    <3>5. QED
      BY <3>1, <3>2, <3>3, <3>4
  <2>2. PICK u \in Workers : WorkerTake(u)
    BY <2>1, OnlyTakeStarts, QueueAssumption
  <2>3. /\ wqueue[u] \in Queues /\ operationQueue[wqueue[u]] # <<>>
        /\ respectPriority[u] \in BOOLEAN
        /\ wop' = [wop EXCEPT ![u] = NextOperation(wqueue[u], respectPriority[u])]
    BY <2>2 DEF WorkerTake, IInv, WorkInv, WorkerInv, TypeOK
  <2>4. r = NextOperation(wqueue[u], respectPriority[u])
    BY <2>1, <2>3 DEF IInv, TypeOK
  <2>5. /\ \E k \in DOMAIN operationQueue[wqueue[u]] : operationQueue[wqueue[u]][k] = r
        /\ priorityMap[wqueue[u]][p] # <<>> /\ Head(priorityMap[wqueue[u]][p]) = r
    BY <2>3, <2>4, NextIsFirstOfItsPriority DEF IInv, WorkInv
  <2>6. wqueue[u] = q
    BY <2>1, <2>3, <2>5 DEF IInv, WorkInv, QueueInv
  <2>7. p \in Priorities /\ list \in Seq(Ops)
    BY <2>1 DEF OpInfo, IInv, TypeOK
  <2>8. 1 \in DOMAIN list /\ list[1] = r
    BY <2>5, <2>6, <2>7
  <2>9. IsSelection(list, queue, OfPriority(p))
    BY <2>7 DEF IInv, WorkInv, QueueConsistency
  <2>10. queue[i] \in OfPriority(p)
    BY <2>1 DEF OfPriority
  <2> HIDE DEF queue, r, p, list
  <2>11. PICK n \in DOMAIN list : list[n] = queue[i]
    BY <2>9, <2>10 DEF IsSelection, queue
  <2>12. n \in Nat /\ n >= 1 /\ n # 1
    BY <2>1, <2>7, <2>8, <2>11
  <2>13. 1 < n <=> j < i
    BY <2>8, <2>9, <2>11 DEF IsSelection, queue, r
  <2>14. i \in Nat /\ j \in Nat
    BY <2>1 DEF queue
  <2>15. QED
    BY <2>12, <2>13, <2>14
<1>2. QED
  BY <1>1, Invariance, PTL DEF Spec, FifoWithinPriority
------------------------------------------------------------------------------
(* Refinement of DispatchGroup. *)

\* Calls of enter() are bounded, and only a busy group has notifications to send.
MemberInv ==
  /\ \A g \in Groups : manual[g] <= MaxEnters
  /\ \A g \in Groups : ~life[g] \/ pendingOperations[g] = 0 => notifyList[g] = {}

InGroup(g) == Outstanding(g) \cup Callers(g)

\* Members of the abstract group tell operations from callers.
LEMMA MembersApart ==
  ASSUME TypeOK
  PROVE  /\ \A g : Outstanding(g) \subseteq Ops
         /\ \A g \in Groups : Callers(g) \subseteq Groups \X Nat
         /\ \A g \in Groups : Callers(g) \cap Ops = {}
         /\ \A g, h \in Groups : g # h => InGroup(g) \cap InGroup(h) = {}
<1>1. \A g : Outstanding(g) \subseteq Ops
  BY DEF Outstanding
<1>2. \A g \in Groups : Callers(g) \subseteq Groups \X Nat
  BY DEF Callers, TypeOK
<1>3. \A g \in Groups : Callers(g) \cap Ops = {}
  BY <1>2, CallerAssumption
<1>4. ASSUME NEW g \in Groups, NEW h \in Groups, g # h
      PROVE  InGroup(g) \cap InGroup(h) = {}
  <2>1. Outstanding(g) \cap Outstanding(h) = {}
    BY <1>4 DEF Outstanding
  <2>2. Callers(g) \cap Callers(h) = {}
    BY <1>4 DEF Callers
  <2>3. QED
    BY <1>1, <1>3, <2>1, <2>2 DEF InGroup
<1>5. QED
  BY <1>1, <1>2, <1>3, <1>4

LEMMA CallersOf ==
  ASSUME NEW g \in Groups, manual[g] \in Nat
  PROVE  /\ Callers(g) = {} <=> manual[g] = 0
         /\ manual[g] > 0 =>
              /\ <<g, manual[g]>> \in Callers(g)
              /\ Callers(g) = {<<g, manual[g]>>} <=> manual[g] = 1
<1>1. \A i \in 1 .. manual[g] : <<g, i>> \in Callers(g)
  BY DEF Callers
<1>2. manual[g] = 0 => Callers(g) = {}
  BY DEF Callers
<1>3. ASSUME manual[g] > 0 PROVE 1 \in 1 .. manual[g] /\ manual[g] \in 1 .. manual[g]
  BY <1>3
<1>4. ASSUME manual[g] = 1 PROVE Callers(g) = {<<g, manual[g]>>}
  <2>1. 1 .. manual[g] = {1}
    BY <1>4
  <2>2. QED
    BY <1>4, <2>1 DEF Callers
<1>5. ASSUME manual[g] > 0, Callers(g) = {<<g, manual[g]>>} PROVE manual[g] = 1
  BY <1>1, <1>3, <1>5
<1>6. QED
  BY <1>1, <1>2, <1>3, <1>4, <1>5

\* The counter tells whether a group is empty, and whether a member is the last.
LEMMA CounterTells ==
  ASSUME IInv, NEW g \in Groups, life[g]
  PROVE  /\ pendingOperations[g] = 0 <=> InGroup(g) = {}
         /\ \A m \in Outstanding(g) : pendingOperations[g] = 1 <=> InGroup(g) = {m}
         /\ manual[g] > 0 => (pendingOperations[g] = 1 <=> InGroup(g) = {<<g, manual[g]>>})
<1>1. /\ pendingOperations[g] = Cardinality(Outstanding(g)) + manual[g]
      /\ manual[g] \in Nat /\ TypeOK
  BY DEF IInv, GroupInv, TypeOK
<1>2. IsFiniteSet(Outstanding(g)) /\ Cardinality(Outstanding(g)) \in Nat
  BY FiniteParts
<1>3. Cardinality(Outstanding(g)) = 0 <=> Outstanding(g) = {}
  BY <1>2, FS_EmptySet
<1>4. ASSUME NEW m \in Outstanding(g)
      PROVE  Cardinality(Outstanding(g)) = 1 <=> Outstanding(g) = {m}
  <2>1. Cardinality(Outstanding(g)) = 1 <=> \E x : Outstanding(g) = {x}
    BY <1>2, FS_Singleton
  <2>2. QED
    BY <1>4, <2>1
<1>5. /\ Callers(g) = {} <=> manual[g] = 0
      /\ manual[g] > 0 =>
           /\ <<g, manual[g]>> \in Callers(g)
           /\ Callers(g) = {<<g, manual[g]>>} <=> manual[g] = 1
  BY <1>1, CallersOf
<1>6. Callers(g) \cap Outstanding(g) = {}
  BY <1>1, MembersApart
<1>7. pendingOperations[g] = 0 <=> InGroup(g) = {}
  BY <1>1, <1>2, <1>3, <1>5 DEF InGroup
<1>8. ASSUME NEW m \in Outstanding(g)
      PROVE  pendingOperations[g] = 1 <=> InGroup(g) = {m}
  <2>1. pendingOperations[g] = 1 <=> Cardinality(Outstanding(g)) = 1 /\ manual[g] = 0
    BY <1>1, <1>2, <1>3, <1>8
  <2>2. pendingOperations[g] = 1 <=> Outstanding(g) = {m} /\ Callers(g) = {}
    BY <1>4, <1>5, <1>8, <2>1
  <2>3. QED
    BY <1>6, <1>8, <2>2 DEF InGroup
<1>9. ASSUME manual[g] > 0
      PROVE  pendingOperations[g] = 1 <=> InGroup(g) = {<<g, manual[g]>>}
  <2>1. pendingOperations[g] = 1 <=> Cardinality(Outstanding(g)) = 0 /\ manual[g] = 1
    BY <1>1, <1>2, <1>9
  <2>2. pendingOperations[g] = 1 <=> Outstanding(g) = {} /\ Callers(g) = {<<g, manual[g]>>}
    BY <1>3, <1>5, <1>9, <2>1
  <2>3. QED
    BY <1>5, <1>6, <1>9, <2>2 DEF InGroup
<1>10. QED
  BY <1>7, <1>8, <1>9

LEMMA InitMemberInv == Init => MemberInv
BY QueueAssumption DEF Init, MemberInv

LEMMA LeaveGroupMembers ==
  ASSUME IInv, MemberInv, NEW g \in Groups, life[g], LeaveGroup(g), manual'[g] <= MaxEnters,
         \A h \in Groups \ {g} : manual'[h] = manual[h]
  PROVE  MemberInv'
<1>1. /\ pendingOperations[g] \in Nat
      /\ pendingOperations' = [pendingOperations EXCEPT ![g] = @ - 1]
      /\ \A h \in Groups \ {g} : pendingOperations'[h] = pendingOperations[h]
      /\ pendingOperations'[g] = pendingOperations[g] - 1
  BY DEF LeaveGroup, IInv, TypeOK
<1>2. CASE pendingOperations[g] = 1
  BY <1>1, <1>2 DEF LeaveGroup, MemberInv, IInv, TypeOK
<1>3. CASE pendingOperations[g] # 1
  <2>1. UNCHANGED <<notifyList, life>>
    BY <1>3 DEF LeaveGroup
  <2>2. pendingOperations'[g] # 0
    BY <1>1, <1>3
  <2>3. QED
    BY <1>1, <2>1, <2>2 DEF MemberInv
<1>4. QED
  BY <1>2, <1>3

\* Whoever is about to leave a group is in it, so that it lives.
LEMMA LeaversLive ==
  ASSUME IInv
  PROVE  /\ \A g \in Groups : manual[g] > 0 => life[g]
         /\ \A w \in Workers : wpc[w] = "leaving" =>
              /\ wop[w] \in Ops /\ op[wop[w]] # NoOp /\ op[wop[w]].group \in Groups
              /\ wop[w] \in Outstanding(op[wop[w]].group) /\ life[op[wop[w]].group]
<1>1. \A g \in Groups : manual[g] > 0 \/ Outstanding(g) # {} => life[g]
  BY DEF IInv, TypeOK, GroupInv
<1>2. ASSUME NEW w \in Workers, wpc[w] = "leaving"
      PROVE  /\ wop[w] \in Ops /\ op[wop[w]] # NoOp /\ op[wop[w]].group \in Groups
             /\ wop[w] \in Outstanding(op[wop[w]].group) /\ life[op[wop[w]].group]
  <2>1. wop[w] \in Ops /\ op[wop[w]] # NoOp
    BY <1>2 DEF IInv, WorkInv, WorkerInv, TypeOK
  <2>2. op[wop[w]] \in OpInfo
    BY <2>1 DEF IInv, TypeOK
  <2>3. wop[w] \in Outstanding(op[wop[w]].group) /\ op[wop[w]].group \in Groups
    BY <2>1, <2>2 DEF Outstanding, OpInfo
  <2>4. QED
    BY <1>1, <2>1, <2>3
<1>3. QED
  BY <1>1, <1>2

LEMMA NextMemberInv == IInv /\ MemberInv /\ [Next]_vars => MemberInv'
<1> SUFFICES ASSUME IInv, MemberInv, [Next]_vars PROVE MemberInv'
  OBVIOUS
<1>t. /\ manual \in [Groups -> Nat] /\ pendingOperations \in [Groups -> Nat]
      /\ notifyList \in [Groups -> SUBSET Blocks] /\ life \in [Groups -> BOOLEAN]
      /\ MaxEnters \in Nat
  BY QueueAssumption DEF IInv, TypeOK
<1>same. ASSUME UNCHANGED <<manual, pendingOperations, notifyList, life>> PROVE MemberInv'
  BY <1>same DEF MemberInv
<1>1. ASSUME NEW g \in Groups, CreateGroup(g) PROVE MemberInv'
  BY <1>1, <1>t DEF CreateGroup, MemberInv
<1>2. ASSUME NEW g \in Groups, Release(g) PROVE MemberInv'
  BY <1>2, <1>t DEF Release, MemberInv
<1>3. ASSUME NEW g \in Groups, Enter(g) PROVE MemberInv'
  BY <1>3, <1>t DEF Enter, CanCall, MemberInv
<1>4. ASSUME NEW g \in Groups, Leave(g) PROVE MemberInv'
  <2>1. life[g] /\ LeaveGroup(g)
    BY <1>4, LeaversLive DEF Leave
  <2>2. manual'[g] <= MaxEnters /\ \A h \in Groups \ {g} : manual'[h] = manual[h]
    BY <1>4, <1>t DEF Leave, MemberInv
  <2>3. QED
    BY <2>1, <2>2, LeaveGroupMembers
<1>5. ASSUME NEW g \in Groups, BeginWait(g) PROVE MemberInv'
  BY <1>5, <1>same DEF BeginWait, groupVars
<1>6. ASSUME NEW g \in Groups, NEW b \in Blocks, Notify(b, g) PROVE MemberInv'
  BY <1>6, <1>t DEF Notify, CanCall, MemberInv
<1>7. ASSUME NEW g \in Groups, NEW o \in Ops, NEW q \in Queues, NEW p \in Priorities,
             NEW n, Schedule(o, g, q, p, n)
      PROVE  MemberInv'
  <2>1. /\ UNCHANGED <<manual, notifyList, life>> /\ life[g]
        /\ pendingOperations' = [pendingOperations EXCEPT ![g] = @ + 1]
    BY <1>7 DEF Schedule, CanCall
  <2>2. QED
    BY <2>1, <1>t DEF MemberInv
<1>8. ASSUME NEW b \in Blocks, RunNotification(b) PROVE MemberInv'
  BY <1>8, <1>same DEF RunNotification, groupVars
<1>9. CASE SpuriousWakeup \/ ContinueWait
  BY <1>9, <1>same DEF SpuriousWakeup, ContinueWait, groupVars
<1>10. ASSUME NEW w \in Workers, WorkerTake(w) \/ WorkerRun(w) \/ WorkerExit(w)
       PROVE  MemberInv'
  BY <1>10, <1>same DEF WorkerTake, WorkerRun, WorkerExit, groupVars
<1>11. ASSUME NEW w \in Workers, WorkerLeave(w) PROVE MemberInv'
  <2> DEFINE g == op[wop[w]].group
  <2>1. g \in Groups /\ life[g] /\ LeaveGroup(g) /\ UNCHANGED manual
    BY <1>11, LeaversLive DEF WorkerLeave
  <2> HIDE DEF g
  <2>2. QED
    BY <2>1, LeaveGroupMembers DEF MemberInv
<1>12. CASE UNCHANGED vars
  BY <1>12, <1>same DEF vars, groupVars
<1>13. QED
  BY <1>1, <1>2, <1>3, <1>4, <1>5, <1>6, <1>7, <1>8, <1>9, <1>10, <1>11, <1>12 DEF Next, Work
\* What an action does to the members of each group.
LEMMA SameMembers ==
  ASSUME UNCHANGED <<op, manual>> PROVE \A g : InGroup(g)' = InGroup(g)
BY DEF InGroup, Outstanding, Callers

LEMMA MemberEnters ==
  ASSUME IInv, NEW g \in Groups, NEW m,
         InGroup(g)' = InGroup(g) \cup {m}, \A h \in Groups \ {g} : InGroup(h)' = InGroup(h),
         \A h \in Groups : m \notin InGroup(h),
         UNCHANGED <<notifyList, dispatched, waiting>>
  PROVE  Abstract!Enter(m, g)
BY DEF Abstract!Enter, InGroup

LEMMA MemberLeaves ==
  ASSUME IInv, NEW g \in Groups, NEW m, life[g], LeaveGroup(g),
         m \in InGroup(g), pendingOperations[g] = 1 <=> InGroup(g) = {m},
         InGroup(g)' = InGroup(g) \ {m}, \A h \in Groups \ {g} : InGroup(h)' = InGroup(h)
  PROVE  Abstract!Leave(m, g)
<1>1. [h \in Groups |-> InGroup(h)]' =
        [[h \in Groups |-> InGroup(h)] EXCEPT ![g] = @ \ {m}]
  OBVIOUS
<1>2. IF InGroup(g) = {m}
        THEN /\ dispatched' = dispatched \cup notifyList[g]
             /\ notifyList' = [notifyList EXCEPT ![g] = {}]
        ELSE UNCHANGED <<notifyList, dispatched>>
  BY DEF LeaveGroup
<1>3. UNCHANGED waiting
  BY DEF LeaveGroup
<1>4. QED
  BY <1>1, <1>2, <1>3 DEF Abstract!Leave, InGroup

\* Scheduling an operation and calling enter() add a member that no group has.
LEMMA ScheduleEnters ==
  ASSUME IInv, NEW g \in Groups, NEW o \in Ops, NEW q \in Queues, NEW p \in Priorities,
         NEW n, Schedule(o, g, q, p, n)
  PROVE  Abstract!Enter(o, g)
<1>1. /\ op[o] = NoOp /\ op' = [op EXCEPT ![o] = [queue |-> q, group |-> g, priority |-> p]]
      /\ UNCHANGED <<manual, notifyList, dispatched, waiting>>
  BY DEF Schedule, mainVars
<1>2. op \in [Ops -> OpInfo \cup {NoOp}] /\ NoOp \notin OpInfo /\ TypeOK
  BY QueueAssumption DEF IInv, TypeOK
<1>3. op'[o] # NoOp /\ op'[o].group = g
  <2>1. [queue |-> q, group |-> g, priority |-> p] \in OpInfo
    BY DEF OpInfo
  <2>2. QED
    BY <1>1, <1>2, <2>1
<1>4. \A h \in Groups : Callers(h)' = Callers(h)
  BY <1>1 DEF Callers
<1>5. Outstanding(g)' = Outstanding(g) \cup {o}
  BY <1>1, <1>2, <1>3 DEF Outstanding
<1>6. \A h \in Groups \ {g} : Outstanding(h)' = Outstanding(h)
  BY <1>1, <1>2, <1>3 DEF Outstanding
<1>7. \A h \in Groups : o \notin InGroup(h)
  <2>1. \A h \in Groups : o \notin Outstanding(h)
    BY <1>1 DEF Outstanding
  <2>2. QED
    BY <1>2, <2>1, MembersApart DEF InGroup
<1>8. InGroup(g)' = InGroup(g) \cup {o} /\ \A h \in Groups \ {g} : InGroup(h)' = InGroup(h)
  BY <1>4, <1>5, <1>6 DEF InGroup
<1>9. QED
  BY <1>1, <1>7, <1>8, MemberEnters

LEMMA CallEnters ==
  ASSUME IInv, NEW g \in Groups, Enter(g)
  PROVE  Abstract!Enter(<<g, manual[g] + 1>>, g)
<1> DEFINE m == <<g, manual[g] + 1>>
<1>1. /\ manual' = [manual EXCEPT ![g] = @ + 1]
      /\ UNCHANGED <<op, notifyList, dispatched, waiting>>
  BY DEF Enter, mainVars
<1>2. manual \in [Groups -> Nat] /\ TypeOK
  BY DEF IInv, TypeOK
<1>3. \A h \in Groups : Outstanding(h)' = Outstanding(h)
  BY <1>1 DEF Outstanding
<1>4. Callers(g)' = Callers(g) \cup {m}
  <2>1. 1 .. manual'[g] = (1 .. manual[g]) \cup {manual[g] + 1}
    BY <1>1, <1>2
  <2>2. QED
    BY <2>1 DEF Callers
<1>5. \A h \in Groups \ {g} : Callers(h)' = Callers(h)
  BY <1>1, <1>2 DEF Callers
<1>6. \A h \in Groups : m \notin InGroup(h)
  <2>1. m \in Groups \X Nat
    BY <1>2
  <2>2. \A h \in Groups : m \notin Outstanding(h)
    BY <1>2, <2>1, MembersApart, CallerAssumption
  <2>3. manual[g] + 1 \notin 1 .. manual[g]
    BY <1>2
  <2>4. \A h \in Groups : m \notin Callers(h)
    BY <2>3 DEF Callers
  <2>5. QED
    BY <2>2, <2>4 DEF InGroup
<1>7. InGroup(g)' = InGroup(g) \cup {m} /\ \A h \in Groups \ {g} : InGroup(h)' = InGroup(h)
  BY <1>3, <1>4, <1>5 DEF InGroup
<1>8. QED
  BY <1>1, <1>6, <1>7, MemberEnters

\* A worker and a caller of leave() take away a member of the group.
LEMMA WorkerLeaves ==
  ASSUME IInv, NEW w \in Workers, WorkerLeave(w),
         NEW o, o = wop[w], NEW g, g = op[o].group
  PROVE  o \in Ops /\ g \in Groups /\ Abstract!Leave(o, g)
<1>1. o \in Ops /\ op[o] # NoOp /\ g \in Groups /\ o \in Outstanding(g) /\ life[g]
  BY LeaversLive DEF WorkerLeave
<1>2. LeaveGroup(g) /\ op' = [op EXCEPT ![o] = NoOp] /\ UNCHANGED manual
  BY DEF WorkerLeave
<1>3. op \in [Ops -> OpInfo \cup {NoOp}] /\ TypeOK
  BY DEF IInv, TypeOK
<1>4. \A h \in Groups : Callers(h)' = Callers(h)
  BY <1>2 DEF Callers
<1>5. Outstanding(g)' = Outstanding(g) \ {o}
  <2>1. \A r \in Ops : op'[r] = IF r = o THEN NoOp ELSE op[r]
    BY <1>2, <1>3
  <2>2. QED
    BY <2>1 DEF Outstanding
<1>6. \A h \in Groups \ {g} : Outstanding(h)' = Outstanding(h)
  BY <1>1, <1>2, <1>3 DEF Outstanding
<1>7. o \notin Callers(g)
  BY <1>1, <1>3, MembersApart
<1>8. pendingOperations[g] = 1 <=> InGroup(g) = {o}
  BY <1>1, CounterTells
<1>9. InGroup(g)' = InGroup(g) \ {o} /\ \A h \in Groups \ {g} : InGroup(h)' = InGroup(h)
  BY <1>1, <1>4, <1>5, <1>6, <1>7 DEF InGroup
<1>10. o \in InGroup(g)
  BY <1>1 DEF InGroup
<1>11. QED
  BY <1>1, <1>2, <1>8, <1>9, <1>10, MemberLeaves

LEMMA CallLeaves ==
  ASSUME IInv, NEW g \in Groups, Leave(g)
  PROVE  Abstract!Leave(<<g, manual[g]>>, g)
<1> DEFINE m == <<g, manual[g]>>
<1>1. /\ manual[g] > 0 /\ manual' = [manual EXCEPT ![g] = @ - 1]
      /\ LeaveGroup(g) /\ UNCHANGED op
  BY DEF Leave
<1>2. manual \in [Groups -> Nat] /\ TypeOK /\ life[g]
  BY <1>1, LeaversLive DEF IInv, TypeOK
<1>3. \A h \in Groups : Outstanding(h)' = Outstanding(h)
  BY <1>1 DEF Outstanding
<1>4. Callers(g)' = Callers(g) \ {m}
  <2>1. 1 .. manual'[g] = (1 .. manual[g]) \ {manual[g]}
    BY <1>1, <1>2
  <2>2. QED
    BY <2>1 DEF Callers
<1>5. \A h \in Groups \ {g} : Callers(h)' = Callers(h)
  BY <1>1, <1>2 DEF Callers
<1>6. m \in Callers(g) /\ (pendingOperations[g] = 1 <=> InGroup(g) = {m})
  BY <1>1, <1>2, CallersOf, CounterTells
<1>7. m \notin Outstanding(g)
  BY <1>2, <1>6, MembersApart
<1>8. InGroup(g)' = InGroup(g) \ {m} /\ \A h \in Groups \ {g} : InGroup(h)' = InGroup(h)
  BY <1>3, <1>4, <1>5, <1>7 DEF InGroup
<1>9. QED
  BY <1>1, <1>2, <1>6, <1>8, MemberLeaves DEF InGroup

LEMMA InitRefines == Init => Abstract!Init
<1> SUFFICES ASSUME Init PROVE Abstract!Init
  OBVIOUS
<1>1. \A g \in Groups : Outstanding(g) = {} /\ Callers(g) = {}
  BY DEF Init, Outstanding, Callers
<1>2. QED
  BY <1>1 DEF Init, Abstract!Init

\* Every step of the queue is one of the group, or none.
LEMMA StepRefines ==
  ASSUME IInv, MemberInv, [Next]_vars
  PROVE  [Abstract!Next]_Abstract!groupVars
<1>t. /\ notifyList \in [Groups -> SUBSET Blocks] /\ TypeOK
      /\ waiting # NoGroup => waiting \in Groups /\ life[waiting]
      /\ NoGroup \notin Groups
  BY QueueAssumption DEF IInv, TypeOK, WaitInv
<1>same. ASSUME UNCHANGED <<op, manual>>
         PROVE  UNCHANGED [g \in Groups |-> Outstanding(g) \cup Callers(g)]
  BY <1>same, SameMembers DEF InGroup
<1>stutter. ASSUME UNCHANGED <<op, manual, notifyList, dispatched, waiting>>
            PROVE  UNCHANGED Abstract!groupVars
  BY <1>stutter, <1>same DEF Abstract!groupVars
<1>1. ASSUME NEW g \in Groups, CreateGroup(g) PROVE UNCHANGED Abstract!groupVars
  <2>1. UNCHANGED <<op, manual, dispatched, waiting>>
    BY <1>1 DEF CreateGroup, mainVars
  <2>2. notifyList' = notifyList
    BY <1>1, <1>t DEF CreateGroup, MemberInv
  <2>3. QED
    BY <1>stutter, <2>1, <2>2
<1>2. ASSUME NEW g \in Groups, Release(g) PROVE UNCHANGED Abstract!groupVars
  BY <1>2, <1>stutter DEF Release, mainVars
<1>3. ASSUME NEW g \in Groups, Enter(g) PROVE Abstract!Next
  <2>1. <<g, manual[g] + 1>> \in Groups \X (1 .. MaxEnters)
    BY <1>3, QueueAssumption DEF Enter, IInv, TypeOK
  <2>2. QED
    BY <1>3, <2>1, CallEnters DEF Abstract!Next
<1>4. ASSUME NEW g \in Groups, Leave(g) PROVE Abstract!Next
  <2>1. <<g, manual[g]>> \in Groups \X (1 .. MaxEnters)
    BY <1>4, QueueAssumption DEF Leave, IInv, TypeOK, MemberInv
  <2>2. QED
    BY <1>4, <2>1, CallLeaves DEF Abstract!Next
<1>5. ASSUME NEW g \in Groups, BeginWait(g) PROVE Abstract!BeginWait(g)
  <2>1. waiting = NoGroup /\ waiting' = g /\ UNCHANGED <<op, manual, notifyList, dispatched>>
    BY <1>5 DEF BeginWait, CanCall, groupVars
  <2>2. QED
    BY <2>1, <1>same DEF Abstract!BeginWait
<1>6. ASSUME NEW g \in Groups, NEW b \in Blocks, Notify(b, g) PROVE Abstract!Notify(b, g)
  <2>1. life[g] /\ UNCHANGED <<op, manual, waiting>>
    BY <1>6 DEF Notify, CanCall, mainVars
  <2>2. pendingOperations[g] = 0 <=> Outstanding(g) \cup Callers(g) = {}
    BY <2>1, CounterTells DEF InGroup
  <2>3. IF Abstract!Empty(g)
          THEN dispatched' = dispatched \cup {b} /\ UNCHANGED notifyList
          ELSE /\ notifyList' = [notifyList EXCEPT ![g] = @ \cup {b}]
               /\ UNCHANGED dispatched
    BY <1>6, <2>2 DEF Notify, Abstract!Empty
  <2>4. QED
    BY <2>1, <2>3, <1>same DEF Abstract!Notify
<1>7. ASSUME NEW g \in Groups, NEW o \in Ops, NEW q \in Queues, NEW p \in Priorities,
             NEW n, Schedule(o, g, q, p, n)
      PROVE  Abstract!Next
  BY <1>7, ScheduleEnters DEF Abstract!Next
<1>8. ASSUME NEW b \in Blocks, RunNotification(b) PROVE Abstract!RunNotification(b)
  <2>1. /\ b \in dispatched /\ dispatched' = dispatched \ {b}
        /\ UNCHANGED <<op, manual, notifyList, waiting>>
    BY <1>8 DEF RunNotification, groupVars, mainVars
  <2>2. QED
    BY <2>1, <1>same DEF Abstract!RunNotification
<1>9. CASE SpuriousWakeup
  BY <1>9, <1>stutter DEF SpuriousWakeup, groupVars
<1>10. CASE ContinueWait
  <2>1. waiting # NoGroup /\ UNCHANGED <<op, manual, notifyList, dispatched>>
    BY <1>10 DEF ContinueWait, groupVars
  <2>2. CASE pendingOperations[waiting] > 0
    BY <1>10, <1>stutter, <2>1, <2>2 DEF ContinueWait
  <2>3. CASE ~(pendingOperations[waiting] > 0)
    <3>1. waiting \in Groups /\ life[waiting] /\ waiting' = NoGroup
      BY <1>10, <1>t, <2>1, <2>3 DEF ContinueWait
    <3>2. pendingOperations[waiting] = 0
      BY <1>t, <2>3, <3>1 DEF TypeOK
    <3>3. Abstract!Empty(waiting)
      BY <3>1, <3>2, CounterTells DEF Abstract!Empty, InGroup
    <3>4. Abstract!EndWait
      BY <1>same, <2>1, <3>1, <3>3 DEF Abstract!EndWait
    <3>5. QED
      BY <3>4 DEF Abstract!Next
  <2>4. QED
    BY <2>2, <2>3
<1>11. ASSUME NEW w \in Workers, WorkerTake(w) \/ WorkerRun(w) \/ WorkerExit(w)
       PROVE  UNCHANGED Abstract!groupVars
  BY <1>11, <1>stutter DEF WorkerTake, WorkerRun, WorkerExit, groupVars, mainVars
<1>12. ASSUME NEW w \in Workers, WorkerLeave(w) PROVE Abstract!Next
  <2>1. PICK o : o = wop[w]
    OBVIOUS
  <2>2. PICK g : g = op[o].group
    OBVIOUS
  <2>3. QED
    BY <1>12, <2>1, <2>2, WorkerLeaves DEF Abstract!Next
<1>13. CASE UNCHANGED vars
  BY <1>13, <1>stutter DEF vars, groupVars, mainVars
<1>14. QED
  BY <1>1, <1>2, <1>3, <1>4, <1>5, <1>6, <1>7, <1>8, <1>9, <1>10, <1>11, <1>12, <1>13
  DEF Next, Work, Abstract!Next

\* The counter, the list and the condition variable of ASAsyncTransactionQueue are
\* a dispatch group: a notification becomes due when the last member leaves, and
\* main returns from wait() only when none is left.
THEOREM QueueImplementsDispatchGroup == Spec => ImplementsDispatchGroup
<1>1. Init => IInv /\ MemberInv /\ Abstract!Init
  BY InitIInv, InitMemberInv, InitRefines
<1>2. IInv /\ MemberInv /\ [Next]_vars => IInv' /\ MemberInv'
  BY StepIInv, NextMemberInv
<1>3. IInv /\ MemberInv /\ [Next]_vars => [Abstract!Next]_Abstract!groupVars
  BY StepRefines
<1>4. QED
  BY <1>1, <1>2, <1>3, PTL DEF Spec, ImplementsDispatchGroup, Abstract!Spec

==============================================================================
