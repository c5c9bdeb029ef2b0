---------------------------- MODULE DispatchGroup ----------------------------
(***************************************************************************)
(* What ASAsyncTransactionQueue::Group promises its clients, in the terms  *)
(* of the dispatch_group_t it says it is similar to                        *)
(* (_ASAsyncTransaction.mm, lines 69-91): a group knows which of its       *)
(* members are outstanding, a notification becomes due at the very moment  *)
(* the last of them leaves, and a waiter returns only when none is left.   *)
(***************************************************************************)
CONSTANTS Groups,    \* the groups
          NoGroup,   \* no group
          Members,   \* what enters and leaves groups: operations, callers
          Blocks     \* the notification blocks

VARIABLES outstanding,   \* the members of each group that have not left
          awaiting,      \* the blocks that wait for each group to empty
          due,           \* the blocks handed to their queue
          waiter         \* the group the main thread waits for, or NoGroup

groupVars == <<outstanding, awaiting, due, waiter>>

Init ==
  /\ outstanding = [g \in Groups |-> {}]
  /\ awaiting = [g \in Groups |-> {}]
  /\ due = {}
  /\ waiter = NoGroup

Empty(g) == outstanding[g] = {}

Enter(m, g) ==
  /\ \A h \in Groups : m \notin outstanding[h]
  /\ outstanding' = [outstanding EXCEPT ![g] = @ \cup {m}]
  /\ UNCHANGED <<awaiting, due, waiter>>

\* Whoever leaves last makes every notification of the group due.
Leave(m, g) ==
  /\ m \in outstanding[g]
  /\ outstanding' = [outstanding EXCEPT ![g] = @ \ {m}]
  /\ IF outstanding[g] = {m}
       THEN /\ due' = due \cup awaiting[g]
            /\ awaiting' = [awaiting EXCEPT ![g] = {}]
       ELSE UNCHANGED <<awaiting, due>>
  /\ UNCHANGED waiter

Notify(b, g) ==
  /\ IF Empty(g)
       THEN due' = due \cup {b} /\ UNCHANGED awaiting
       ELSE awaiting' = [awaiting EXCEPT ![g] = @ \cup {b}] /\ UNCHANGED due
  /\ UNCHANGED <<outstanding, waiter>>

RunNotification(b) ==
  /\ b \in due
  /\ due' = due \ {b}
  /\ UNCHANGED <<outstanding, awaiting, waiter>>

BeginWait(g) ==
  /\ waiter = NoGroup
  /\ waiter' = g
  /\ UNCHANGED <<outstanding, awaiting, due>>

EndWait ==
  /\ waiter \in Groups
  /\ Empty(waiter)
  /\ waiter' = NoGroup
  /\ UNCHANGED <<outstanding, awaiting, due>>

Next ==
  \/ \E g \in Groups :
       \/ \E m \in Members : Enter(m, g) \/ Leave(m, g)
       \/ \E b \in Blocks : Notify(b, g)
       \/ BeginWait(g)
  \/ \E b \in Blocks : RunNotification(b)
  \/ EndWait

Spec == Init /\ [][Next]_groupVars
==============================================================================
