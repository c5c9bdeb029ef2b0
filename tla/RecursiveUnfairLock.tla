------------------------- MODULE RecursiveUnfairLock -------------------------
(***************************************************************************)
(* ASRecursiveUnfairLock: a recursive lock built from a non-recursive      *)
(* os_unfair_lock, an atomic owner (_thread) and a counter (_count) that   *)
(* the lock protects.  Every access to shared memory is a step of its own, *)
(* so that threads interleave between the test of _thread, the acquisition *)
(* of _lock, the store to _thread and the update of _count.                *)
(*                                                                         *)
(* _thread is read with memory_order_relaxed.  The value read is only      *)
(* compared with the reading thread itself, and coherence of one location  *)
(* never lets a thread read a value older than its own last store, so the  *)
(* outcome of the comparison is that of a read of the latest value.        *)
(***************************************************************************)
EXTENDS Naturals

CONSTANTS Threads,    \* the threads that use the lock
          NoThread,   \* the NULL pthread_t
          MaxDepth    \* bound: how often one thread holds the lock at once

ASSUME NoThreadAssumption == NoThread \notin Threads
ASSUME MaxDepthAssumption == MaxDepth \in Nat \ {0}

VARIABLES osLock,     \* _lock: the thread that holds the os_unfair_lock
          thread,     \* _thread
          count,      \* _count
          pc,         \* where each thread is inside the lock's functions
          depth       \* how often each caller holds the lock (its own view)

vars == <<osLock, thread, count, pc, depth>>

PCs == {"idle", "lock", "trylock", "didAcquire", "increment",
        "willRelease", "unlock"}

Goto(t, from, to) == pc[t] = from /\ pc' = [pc EXCEPT ![t] = to]

Init ==
  /\ osLock = NoThread
  /\ thread = NoThread
  /\ count = 0
  /\ pc = [t \in Threads |-> "idle"]
  /\ depth = [t \in Threads |-> 0]

(***************************************************************************)
(* Lock and TryLock read _thread first: the owner skips the acquisition.   *)
(***************************************************************************)
BeginLock(t) ==
  /\ depth[t] < MaxDepth
  /\ Goto(t, "idle", IF thread = t THEN "increment" ELSE "lock")
  /\ UNCHANGED <<osLock, thread, count, depth>>

BeginTryLock(t) ==
  /\ depth[t] < MaxDepth
  /\ Goto(t, "idle", IF thread = t THEN "increment" ELSE "trylock")
  /\ UNCHANGED <<osLock, thread, count, depth>>

\* os_unfair_lock_lock blocks while the lock is held.
OsLock(t) ==
  /\ osLock = NoThread
  /\ osLock' = t
  /\ Goto(t, "lock", "didAcquire")
  /\ UNCHANGED <<thread, count, depth>>

\* os_unfair_lock_trylock succeeds, or TryLock returns NO.
OsTryLock(t) ==
  /\ IF osLock = NoThread
       THEN osLock' = t /\ Goto(t, "trylock", "didAcquire")
       ELSE UNCHANGED osLock /\ Goto(t, "trylock", "idle")
  /\ UNCHANGED <<thread, count, depth>>

\* Faulty variant: the owner is not recorded.
FaultyDidAcquire(t) ==
  /\ Goto(t, "didAcquire", "increment")
  /\ UNCHANGED <<osLock, thread, count, depth>>

DidAcquire(t) ==
  /\ Goto(t, "didAcquire", "increment")
  /\ thread' = t
  /\ UNCHANGED <<osLock, count, depth>>

Increment(t) ==
  /\ Goto(t, "increment", "idle")
  /\ count' = count + 1
  /\ depth' = [depth EXCEPT ![t] = @ + 1]
  /\ UNCHANGED <<osLock, thread>>

\* The contract of Unlock is that the caller holds the lock.
BeginUnlock(t) ==
  /\ depth[t] > 0
  /\ Goto(t, "idle", IF count = 1 THEN "willRelease" ELSE "idle")
  /\ count' = count - 1
  /\ depth' = [depth EXCEPT ![t] = @ - 1]
  /\ UNCHANGED <<osLock, thread>>

\* Faulty variant: _lock is released with the owner still recorded.
FaultyWillRelease(t) ==
  /\ Goto(t, "willRelease", "unlock")
  /\ UNCHANGED <<osLock, thread, count, depth>>

WillRelease(t) ==
  /\ Goto(t, "willRelease", "unlock")
  /\ thread' = NoThread
  /\ UNCHANGED <<osLock, count, depth>>

OsUnlock(t) ==
  /\ Goto(t, "unlock", "idle")
  /\ osLock' = NoThread
  /\ UNCHANGED <<thread, count, depth>>

Next ==
  \E t \in Threads :
    \/ BeginLock(t) \/ BeginTryLock(t) \/ OsLock(t) \/ OsTryLock(t)
    \/ DidAcquire(t) \/ Increment(t)
    \/ BeginUnlock(t) \/ WillRelease(t) \/ OsUnlock(t)

Spec == Init /\ [][Next]_vars

------------------------------------------------------------------------------
\* The state has the types the code declares (ASRecursiveUnfairLock.h:21-25).
TypeOK ==
  /\ osLock \in Threads \cup {NoThread}
  /\ thread \in Threads \cup {NoThread}
  /\ count \in Nat
  /\ pc \in [Threads -> PCs]
  /\ depth \in [Threads -> Nat]

\* Two callers never hold the lock at once, through any mixture of Lock,
\* TryLock and Unlock (the comments at ASRecursiveUnfairLock.mm:40-43, 80-83).
MutualExclusion ==
  \A t, u \in Threads : depth[t] > 0 /\ depth[u] > 0 => t = u

\* No assertion of the lock fires: DidAcquire (line 23) finds no owner and a
\* zero count, AssertHeld (35) a positive count on the recursive path,
\* WillRelease (29) a zero count, and Unlock (77) the caller as the owner.
AssertionsHold ==
  \A t \in Threads :
    /\ pc[t] = "didAcquire" => thread = NoThread /\ count = 0
    /\ pc[t] = "increment" => osLock = t /\ thread = t /\ count = depth[t]
    /\ pc[t] = "willRelease" => osLock = t /\ thread = t /\ count = 0
    /\ pc[t] = "unlock" => osLock = t /\ thread = NoThread
    /\ depth[t] > 0 => thread = t

\* A thread that holds the lock never waits for it: the recursive path is
\* taken on every nested call, so the lock cannot deadlock on its own owner.
NeverBlocksOnItself ==
  \A t \in Threads : pc[t] \in {"lock", "trylock"} => osLock # t /\ depth[t] = 0

------------------------------------------------------------------------------
\* The lock as its callers see it: the owner is whoever holds it.
Owner ==
  IF \E t \in Threads : depth[t] > 0
    THEN CHOOSE t \in Threads : depth[t] > 0
    ELSE NoThread

Abstract == INSTANCE RecursiveLock WITH owner <- Owner, holds <- count

\* The functions implement a recursive lock: every step takes or gives back
\* one hold of a lock with a single owner, or is invisible to the callers.
ImplementsRecursiveLock == Abstract!Spec
==============================================================================
