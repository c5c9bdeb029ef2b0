---------------------------- MODULE RecursiveLock ----------------------------
(***************************************************************************)
(* What a client of ASRecursiveUnfairLock relies on: a lock with at most   *)
(* one owner, which the owner may take again and which is free once it was *)
(* given back as often as it was taken.  ASRecursiveUnfairLock.h, lines    *)
(* 27-45, is the interface; RecursiveUnfairLock.tla is its implementation. *)
(***************************************************************************)
EXTENDS Naturals

CONSTANTS Threads,   \* the threads that use the lock
          NoThread   \* the NULL pthread_t

VARIABLES owner,     \* the thread that holds the lock, or NoThread
          holds      \* how often the owner holds it

lockVars == <<owner, holds>>

Init == owner = NoThread /\ holds = 0

Take(t) ==
  /\ owner \in {NoThread, t}
  /\ owner' = t
  /\ holds' = holds + 1

Give(t) ==
  /\ owner = t
  /\ holds' = holds - 1
  /\ owner' = IF holds = 1 THEN NoThread ELSE t

Next == \E t \in Threads : Take(t) \/ Give(t)

Spec == Init /\ [][Next]_lockVars
==============================================================================
