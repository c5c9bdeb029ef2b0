-------------------------- MODULE LockAndQueueProofs --------------------------
(***************************************************************************)
(* Proofs about the two small components that threads share:               *)
(* RecursiveUnfairLock, for every set of threads, and RunLoopQueue, for    *)
(* any objects, batch sizes and numbers of calls.                          *)
(*                                                                         *)
(* The inductive invariant of the lock ties the three pieces of lock state *)
(* and the two pieces of per-thread state together: osLock alone decides   *)
(* who may be past the acquisition, thread follows it except in the two    *)
(* windows between os_unfair_lock_lock and the store of _thread, and       *)
(* between its clearing and os_unfair_lock_unlock, and count is the        *)
(* owner's depth.                                                          *)
(***************************************************************************)
EXTENDS RecursiveUnfairLock, RunLoopQueue, TLAPS

\* t is past the acquisition of the os_unfair_lock and has not released it.
Inside(t) ==
  depth[t] > 0 \/ pc[t] \in {"didAcquire", "increment", "willRelease", "unlock"}

IInv ==
  /\ TypeOK
  /\ \A t \in Threads :
       /\ osLock = t <=> Inside(t)
       /\ thread = t <=> Inside(t) /\ pc[t] \notin {"didAcquire", "unlock"}
       /\ pc[t] \notin {"idle", "increment"} => depth[t] = 0
       /\ osLock = t => count = depth[t]
  /\ osLock = NoThread => thread = NoThread /\ count = 0

LEMMA InitIInv == Init => IInv
BY NoThreadAssumption DEF Init, IInv, TypeOK, PCs, Inside

LEMMA StepIInv == IInv /\ [Next]_vars => IInv'
<1> SUFFICES ASSUME IInv, [Next]_vars PROVE IInv'
  OBVIOUS
<1> USE NoThreadAssumption DEF IInv, TypeOK, PCs, Inside, Goto
<1>1. ASSUME NEW t \in Threads, BeginLock(t) PROVE IInv'
  BY <1>1 DEF BeginLock
<1>2. ASSUME NEW t \in Threads, BeginTryLock(t) PROVE IInv'
  BY <1>2 DEF BeginTryLock
<1>3. ASSUME NEW t \in Threads, OsLock(t) PROVE IInv'
  BY <1>3 DEF OsLock
<1>4. ASSUME NEW t \in Threads, OsTryLock(t) PROVE IInv'
  BY <1>4 DEF OsTryLock
<1>5. ASSUME NEW t \in Threads, DidAcquire(t) PROVE IInv'
  BY <1>5 DEF DidAcquire
<1>6. ASSUME NEW t \in Threads, Increment(t) PROVE IInv'
  BY <1>6 DEF Increment
<1>7. ASSUME NEW t \in Threads, BeginUnlock(t) PROVE IInv'
  BY <1>7 DEF BeginUnlock
<1>8. ASSUME NEW t \in Threads, WillRelease(t) PROVE IInv'
  BY <1>8 DEF WillRelease
<1>9. ASSUME NEW t \in Threads, OsUnlock(t) PROVE IInv'
  BY <1>9 DEF OsUnlock
<1>10. CASE UNCHANGED vars
  BY <1>10 DEF vars
<1>11. QED
  BY <1>1, <1>2, <1>3, <1>4, <1>5, <1>6, <1>7, <1>8, <1>9, <1>10 DEF Next

\* The strengthened invariant holds in every reachable state.
THEOREM Invariance == Spec => []IInv
BY InitIInv, StepIInv, PTL DEF Spec

\* Two threads never hold the lock at once, however many threads use it and
\* however deeply they nest (the lock of ASRecursiveUnfairLock.mm:38-87).
THEOREM MutualExclusionHolds == Spec => []MutualExclusion
<1>1. IInv => MutualExclusion
  BY DEF IInv, Inside, MutualExclusion
<1>2. QED
  BY <1>1, Invariance, PTL

\* None of the lock's NSCAsserts can fire (ASRecursiveUnfairLock.mm:23, 29,
\* 35, 77), and the recursive path is taken on every nested call.
THEOREM LockIsSafe == Spec => [](AssertionsHold /\ NeverBlocksOnItself)
<1>1. IInv => AssertionsHold /\ NeverBlocksOnItself
  BY NoThreadAssumption DEF IInv, TypeOK, PCs, Inside, AssertionsHold, NeverBlocksOnItself
<1>2. QED
  BY <1>1, Invariance, PTL

------------------------------------------------------------------------------
(* Refinement of RecursiveLock. *)

LEMMA OwnerOfHeldLock ==
  ASSUME MutualExclusion, NEW t \in Threads, depth[t] > 0
  PROVE  Owner = t
BY DEF Owner, MutualExclusion

LEMMA OwnerOfFreeLock ==
  ASSUME \A t \in Threads : ~(depth[t] > 0)
  PROVE  Owner = NoThread
BY DEF Owner

LEMMA RefinementInit == Init => Abstract!Init
BY DEF Init, Owner, Abstract!Init

\* A step that changes no caller's hold leaves the abstract lock alone.
LEMMA SameDepthSameOwner ==
  ASSUME UNCHANGED <<depth, count>>
  PROVE  UNCHANGED Abstract!lockVars
<1>1. Owner' = Owner
  BY DEF Owner
<1>2. QED
  BY <1>1 DEF Abstract!lockVars

LEMMA RefinementStep ==
  IInv /\ IInv' /\ [Next]_vars => [Abstract!Next]_Abstract!lockVars
<1> SUFFICES ASSUME IInv, IInv', [Next]_vars
             PROVE  [Abstract!Next]_Abstract!lockVars
  OBVIOUS
<1>a. MutualExclusion /\ MutualExclusion'
  BY DEF IInv, Inside, MutualExclusion
<1>1. ASSUME NEW t \in Threads, Increment(t) PROVE Abstract!Take(t)
  <2>1. Owner' = t
    <3>1. depth'[t] > 0
      BY <1>1 DEF Increment, IInv, TypeOK
    <3>2. QED
      BY <1>a, <3>1 DEF Owner, MutualExclusion
  <2>2. \A u \in Threads : u # t => ~(depth[u] > 0)
    BY <1>1 DEF Increment, Goto, IInv, TypeOK, Inside
  <2>3. Owner \in {NoThread, t}
    BY <2>2, <1>a DEF Owner
  <2>4. QED
    BY <1>1, <2>1, <2>3 DEF Increment, Abstract!Take
<1>2. ASSUME NEW t \in Threads, BeginUnlock(t) PROVE Abstract!Give(t)
  <2>1. Owner = t
    BY <1>2, <1>a, OwnerOfHeldLock DEF BeginUnlock
  <2>2. /\ count = depth[t]
        /\ depth' = [depth EXCEPT ![t] = @ - 1]
        /\ count' = count - 1
        /\ depth[t] \in Nat
        /\ \A u \in Threads : u # t => ~(depth[u] > 0)
    BY <1>2, <1>a DEF BeginUnlock, IInv, TypeOK, Inside, MutualExclusion
  <2>3. CASE count = 1
    <3>1. \A u \in Threads : ~(depth'[u] > 0)
      BY <2>2, <2>3 DEF IInv, TypeOK
    <3>2. Owner' = NoThread
      BY <3>1 DEF Owner
    <3>3. QED
      BY <2>1, <2>2, <2>3, <3>2 DEF Abstract!Give
  <2>4. CASE count # 1
    <3>1. depth'[t] > 0
      BY <1>2, <2>2, <2>4 DEF BeginUnlock, IInv, TypeOK
    <3>2. Owner' = t
      BY <1>a, <3>1 DEF Owner, MutualExclusion
    <3>3. QED
      BY <2>1, <2>2, <2>4, <3>2 DEF Abstract!Give
  <2>5. QED
    BY <2>3, <2>4
<1>3. ASSUME NEW t \in Threads,
             \/ BeginLock(t) \/ BeginTryLock(t) \/ OsLock(t) \/ OsTryLock(t)
             \/ DidAcquire(t) \/ WillRelease(t) \/ OsUnlock(t)
      PROVE  UNCHANGED <<depth, count>>
  BY <1>3 DEF BeginLock, BeginTryLock, OsLock, OsTryLock, DidAcquire,
              WillRelease, OsUnlock
<1>4. CASE UNCHANGED vars
  BY <1>4, SameDepthSameOwner DEF vars
<1>5. QED
  BY <1>1, <1>2, <1>3, <1>4, SameDepthSameOwner DEF Next, Abstract!Next

\* Lock, TryLock and Unlock implement a recursive lock with a single owner.
THEOREM Refinement == Spec => ImplementsRecursiveLock
<1>1. Spec => []IInv
  BY Invariance
<1>2. QED
  BY <1>1, RefinementInit, RefinementStep, PTL
  DEF Spec, ImplementsRecursiveLock, Abstract!Spec

-----------------------------------------------------------------------------
(***************************************************************************)
(* The run loop queue.  What must be strengthened is what a batch knows of *)
(* itself: one that will not signal, since it found the queue drained, may *)
(* meanwhile have got an entry, but then that entry was the first and has  *)
(* signalled.                                                              *)
(***************************************************************************)
QuietBatch == runLoop = "observer" /\ isQueueDrained /\ ~wake => entries = <<>>

QueueInv == WorkIsAnnounced /\ QuietBatch

LEMMA QueueInitInv == QueueInit => QueueInv
BY DEF QueueInit, QueueInv, WorkIsAnnounced, QuietBatch

\* An entry that is added to an empty queue signals.
LEMMA QueueEnqueueInv == ASSUME QueueInv, NEW o \in Objects, Enqueue(o) PROVE QueueInv'
<1> USE DEF Enqueue, QueueInv, WorkIsAnnounced, QuietBatch, loopVars
<1>1. CASE options.ensureExclusiveMembership /\ Contains(entries, o)
  BY <1>1
<1>2. CASE ~(options.ensureExclusiveMembership /\ Contains(entries, o))
  <2>1. entries' = Append(entries, o) /\ wake' = (wake \/ Len(entries') = 1)
    BY <1>2
  <2>2. ASSUME entries = <<>> PROVE wake'
    <3>1. Len(entries') = 1
      BY <2>1, <2>2
    <3>2. QED
      BY <2>1, <3>1, Zenon
  <2>3. runLoop' = runLoop /\ isQueueDrained' = isQueueDrained
    OBVIOUS
  <2>4. wake => wake'
    BY <2>1, Zenon
  <2>5. QED
    BY <2>2, <2>3, <2>4
<1>3. QED
  BY <1>1, <1>2

\* The death of an object shortens no array.
LEMMA QueueReleaseInv == ASSUME QueueInv, NEW o \in Objects, Release(o) PROVE QueueInv'
<1>1. entries = <<>> => entries' = <<>>
  BY DEF Release
<1>2. runLoop' = runLoop /\ wake' = wake /\ isQueueDrained' = isQueueDrained
  BY DEF Release, loopVars
<1>3. QED
  BY <1>1, <1>2 DEF QueueInv, WorkIsAnnounced, QuietBatch

LEMMA QueueStepInv == QueueInv /\ [QueueNext]_queueVars => QueueInv'
<1> SUFFICES ASSUME QueueInv, [QueueNext]_queueVars PROVE QueueInv'
  OBVIOUS
<1> USE DEF QueueInv, WorkIsAnnounced, QuietBatch
<1>1. ASSUME NEW o \in Objects, Enqueue(o) PROVE QueueInv'
  BY <1>1, QueueEnqueueInv
<1>2. ASSUME NEW o \in Objects, Release(o) PROVE QueueInv'
  BY <1>2, QueueReleaseInv
<1>3. CASE FindNothing
  BY <1>3 DEF FindNothing
<1>4. CASE TakeBatch
  BY <1>4 DEF TakeBatch
<1>5. CASE Consume
  BY <1>5 DEF Consume
<1>6. CASE FinishBatch
  BY <1>6 DEF FinishBatch
<1>7. CASE WakeUp
  BY <1>7 DEF WakeUp
<1>8. CASE OtherWork
  BY <1>8 DEF OtherWork
<1>9. CASE UNCHANGED queueVars
  BY <1>9 DEF queueVars, loopVars
<1>10. QED
  BY <1>1, <1>2, <1>3, <1>4, <1>5, <1>6, <1>7, <1>8, <1>9 DEF QueueNext, RunLoopStep

\* The strengthened invariant holds in every reachable state.
THEOREM QueueInvariance == QueueSpec => []QueueInv
BY QueueInitInv, QueueStepInv, PTL DEF QueueSpec

\* A sleeping run loop that nothing has woken up has an empty queue, whatever
\* the threads that enqueue do, and whichever objects die.
THEOREM WorkIsAlwaysAnnounced == QueueSpec => []WorkIsAnnounced
<1>1. QueueInv => WorkIsAnnounced
  BY DEF QueueInv
<1>2. QED
  BY QueueInvariance, <1>1, PTL
===============================================================================
