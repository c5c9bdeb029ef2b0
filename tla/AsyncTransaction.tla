--------------------------- MODULE AsyncTransaction ---------------------------
(***************************************************************************)
(* _ASAsyncTransaction, its container category on CALayer and the main     *)
(* _ASAsyncTransactionGroup, on top of the dispatch group that             *)
(* AsyncTransactionQueue implements.                                       *)
(*                                                                         *)
(* A layer opens a transaction on demand; operations added to it start at  *)
(* once on worker threads; the run loop, a wait or a cancellation commits  *)
(* it; when it is committed and its operations have left the group, main   *)
(* calls their completion blocks.  Those blocks run client code, which may *)
(* display, cancel and wait again, and a layer is told of each transaction *)
(* that completed, in a hook that may display too: stack holds the methods *)
(* main is inside, innermost first, and client code runs when main is idle,*)
(* in a callback or in a hook.                                             *)
(***************************************************************************)
EXTENDS Naturals, Sequences, FiniteSets, SequencesExt

CONSTANTS Layers,          \* transaction containers
          Transactions,    \* transaction objects, reused after dealloc
          Ops,             \* operations
          NoTransaction, NoLayer,
          MaxDepth,        \* bound: methods main is inside at once
          MaxOps,          \* bound: operations of one transaction
          WaitsForOwn,     \* does a callback wait for a transaction that
                           \* is being completed further up the stack?
          HooksDisplayAll  \* does a hook display also in the layer that is
                           \* being canceled, or in a transaction for whose
                           \* wait the main group is being committed?

AsyncTransactionAssumption ==
  /\ NoTransaction \notin Transactions /\ NoLayer \notin Layers
  /\ WaitsForOwn \in BOOLEAN /\ HooksDisplayAll \in BOOLEAN
  /\ MaxDepth \in Nat /\ MaxOps \in Nat
ASSUME AsyncTransactionAssumption

VARIABLES
  state, operations,       \* of each transaction
  layerOf,                 \* the layer that opened it
  current,                 \* asyncdisplaykit_currentAsyncTransaction
  layerTransactions,       \* asyncdisplaykit_asyncLayerTransactions
  containers,              \* of the main transaction group
  block, value,            \* each operation's block, and whether it yielded
  completion, calls,       \* is its completion block set; how often called
  completed,               \* how often each transaction's block was called
  outstanding, awaiting, due, waiter,   \* the transactions' dispatch groups
  stack                    \* the methods the main thread is inside

txVars   == <<state, operations, layerOf>>
boxVars  == <<current, layerTransactions, containers>>
opVars   == <<block, value>>
callVars == <<completion, calls, completed>>
grpVars  == <<outstanding, awaiting, due, waiter>>
vars == <<txVars, boxVars, opVars, callVars, grpVars, stack>>

\* Each transaction has its group, notified of with one block of its own.
Group == INSTANCE DispatchGroup WITH
  Groups <- Transactions, Blocks <- Transactions, Members <- Ops,
  NoGroup <- NoTransaction

Init ==
  /\ state = [t \in Transactions |-> "none"]
  /\ operations = [t \in Transactions |-> <<>>]
  /\ layerOf = [t \in Transactions |-> NoLayer]
  /\ current = [l \in Layers |-> NoTransaction]
  /\ layerTransactions = [l \in Layers |-> {}]
  /\ containers = {}
  /\ block = [o \in Ops |-> "none"]
  /\ value = [o \in Ops |-> FALSE]
  /\ completion = [o \in Ops |-> FALSE]
  /\ calls = [o \in Ops |-> 0]
  /\ completed = [t \in Transactions |-> 0]
  /\ Group!Init
  /\ stack = <<>>

------------------------------------------------------------------------------
(* The methods the main thread can be inside. *)

Completing(t, i, c) == [kind |-> "completing", t |-> t, i |-> i, canceled |-> c]
InCallback(t, i, c) == [kind |-> "callback", t |-> t, i |-> i, canceled |-> c]
InHook(t)           == [kind |-> "hook", t |-> t]
Waiting(t)          == [kind |-> "waiting", t |-> t]
WaitCommitted(t)    == [kind |-> "waitCommitted", t |-> t]
Committing(L)       == [kind |-> "committing", layers |-> L]
Canceling(l)        == [kind |-> "canceling", layer |-> l]

Inside(kind) == stack # <<>> /\ Head(stack).kind = kind
Top  == Head(stack)
Rest == Tail(stack)

ClientRuns == stack = <<>> \/ Inside("callback")

\* Client code that displays: the one of a hook runs in the midst of the commit
\* or the completion that called the hook, and in what called those.
Displays(l, t) ==
  \/ ClientRuns
  \/ /\ Inside("hook")
     /\ \/ HooksDisplayAll
        \/ Canceling(l) \notin ToSet(stack) /\ WaitCommitted(t) \notin ToSet(stack)

OnStack(t) == \E i \in DOMAIN stack : "t" \in DOMAIN stack[i] /\ stack[i].t = t

\* The completion block the container gave the transaction: forget it.
Detach(t) ==
  /\ layerTransactions' = [layerTransactions EXCEPT ![layerOf[t]] = @ \ {t}]
  /\ completed' = [completed EXCEPT ![t] = @ + 1]

\* Faulty variant: a transaction with operations is not notified of them.
SilentCommit(t, rest) ==
  /\ state' = [state EXCEPT ![t] = "committed"]
  /\ IF operations[t] = <<>>
       THEN Detach(t) /\ stack' = <<InHook(t)>> \o rest
       ELSE stack' = rest /\ UNCHANGED <<layerTransactions, completed>>
  /\ UNCHANGED <<operations, layerOf, opVars, completion, calls, grpVars>>

\* commit: without operations the completion block is called at once.
Commit(t, rest) ==
  /\ state' = [state EXCEPT ![t] = "committed"]
  /\ IF operations[t] = <<>>
       THEN Detach(t) /\ stack' = <<InHook(t)>> \o rest /\ UNCHANGED grpVars
       ELSE /\ Group!Notify(t, t)
            /\ stack' = rest
            /\ UNCHANGED <<layerTransactions, completed>>
  /\ UNCHANGED <<operations, layerOf, opVars, completion, calls>>

\* Faulty variant: completeTransaction does not test the state.
RepeatedComplete(t, rest) ==
  stack' = <<Completing(t, 1, state[t] = "canceled")>> \o rest

\* Faulty variant: completeTransaction does not pass the cancellation on.
UncanceledComplete(t, rest) ==
  stack' = IF state[t] = "complete" THEN rest ELSE <<Completing(t, 1, FALSE)>> \o rest

\* completeTransaction: nothing if it was completed before.
EnterComplete(t, rest) ==
  stack' = IF state[t] = "complete"
             THEN rest
             ELSE <<Completing(t, 1, state[t] = "canceled")>> \o rest

------------------------------------------------------------------------------
(* What client code does on the main thread. *)

\* The layer's current transaction, opened if there is none.
OpenTransaction(l, t) ==
  IF current[l] # NoTransaction
    THEN t = current[l] /\ UNCHANGED <<state, layerOf, current, layerTransactions>>
    ELSE /\ state[t] = "none"
         /\ state' = [state EXCEPT ![t] = "open"]
         /\ layerOf' = [layerOf EXCEPT ![t] = l]
         /\ current' = [current EXCEPT ![l] = t]
         /\ layerTransactions' = [layerTransactions EXCEPT ![l] = @ \cup {t}]

\* The client asks for the transaction and adds nothing to it.
GetTransaction(l, t) ==
  /\ Displays(l, t) /\ current[l] = NoTransaction
  /\ OpenTransaction(l, t)
  /\ containers' = containers \cup {l}
  /\ UNCHANGED <<operations, opVars, callVars, grpVars, stack>>

\* The operation starts when it is added (displayAsyncLayer:asynchronously:).
AddOperation(l, t, o) ==
  /\ Displays(l, t)
  /\ OpenTransaction(l, t)
  /\ block[o] = "none" /\ ~completion[o] /\ calls[o] = 0
  /\ Len(operations[t]) < MaxOps
  /\ containers' = containers \cup {l}
  /\ operations' = [operations EXCEPT ![t] = Append(@, o)]
  /\ block' = [block EXCEPT ![o] = "scheduled"]
  /\ completion' = [completion EXCEPT ![o] = TRUE]
  /\ Group!Enter(o, t)
  /\ UNCHANGED <<value, calls, completed, stack>>

\* cancelAsyncTransactions commits the current transaction first ...
CancelAsyncTransactions(l) ==
  /\ ClientRuns /\ Len(stack) < MaxDepth /\ layerTransactions[l] # {}
  /\ IF current[l] = NoTransaction
       THEN /\ stack' = <<Canceling(l)>> \o stack
            /\ UNCHANGED <<txVars, layerTransactions, opVars, callVars, grpVars>>
       ELSE Commit(current[l], <<Canceling(l)>> \o stack)
  /\ UNCHANGED <<current, containers>>

\* ... then forgets it and cancels every transaction of the layer.
FinishCancel ==
  /\ Inside("canceling")
  /\ current' = [current EXCEPT ![Top.layer] = NoTransaction]
  /\ state' = [t \in Transactions |->
                 IF t \in layerTransactions[Top.layer] THEN "canceled" ELSE state[t]]
  /\ stack' = Rest
  /\ UNCHANGED <<operations, layerOf, layerTransactions, containers, opVars,
                 callVars, grpVars>>

\* waitUntilComplete, for a transaction found in the layer's set.
WaitUntilComplete(l, t) ==
  /\ ClientRuns /\ Len(stack) < MaxDepth
  /\ t \in layerTransactions[l] /\ operations[t] # <<>>
  /\ state[t] # "complete"
  /\ WaitsForOwn \/ ~OnStack(t)
  /\ Group!BeginWait(t)
  /\ stack' = <<Waiting(t)>> \o stack
  /\ UNCHANGED <<txVars, boxVars, opVars, callVars>>

\* Faulty variant: main does not wait for the group.
FaultyWaitOver ==
  /\ Inside("waiting")
  /\ waiter' = NoTransaction
  /\ IF state[Top.t] = "open"
       THEN /\ stack' = <<Committing(containers), WaitCommitted(Top.t)>> \o Rest
            /\ containers' = {}
       ELSE EnterComplete(Top.t, Rest) /\ UNCHANGED containers
  /\ UNCHANGED <<txVars, current, layerTransactions, opVars, callVars,
                 outstanding, awaiting, due>>

\* The group is empty: commit the main group first if we are still open.
WaitOver ==
  /\ Inside("waiting") /\ Group!EndWait
  /\ IF state[Top.t] = "open"
       THEN /\ stack' = <<Committing(containers), WaitCommitted(Top.t)>> \o Rest
            /\ containers' = {}
       ELSE EnterComplete(Top.t, Rest) /\ UNCHANGED containers
  /\ UNCHANGED <<txVars, current, layerTransactions, opVars, callVars>>

WaitComplete ==
  /\ Inside("waitCommitted")
  /\ EnterComplete(Top.t, Rest)
  /\ UNCHANGED <<txVars, boxVars, opVars, callVars, grpVars>>

------------------------------------------------------------------------------
(* The main run loop. *)

\* The run loop observer of the main transaction group.
RunLoopCommit ==
  /\ stack = <<>> /\ containers # {}
  /\ stack' = <<Committing(containers)>>
  /\ containers' = {}
  /\ UNCHANGED <<txVars, current, layerTransactions, opVars, callVars, grpVars>>

\* Faulty variant: the layer keeps the transaction that is committed.
FaultyCommitContainer ==
  /\ Inside("committing")
  /\ \E l \in Top.layers :
       LET rest == <<Committing(Top.layers \ {l})>> \o Rest
       IN  IF current[l] = NoTransaction
             THEN /\ stack' = rest
                  /\ UNCHANGED <<txVars, layerTransactions, opVars, callVars, grpVars>>
             ELSE Commit(current[l], rest)
  /\ UNCHANGED <<current, containers>>

\* One container of the group's commit, in no particular order: the current
\* transaction is taken from the layer before it is committed.
CommitContainer ==
  /\ Inside("committing")
  /\ \E l \in Top.layers :
       LET rest == <<Committing(Top.layers \ {l})>> \o Rest
       IN  /\ current' = [current EXCEPT ![l] = NoTransaction]
           /\ IF current[l] = NoTransaction
                THEN /\ stack' = rest
                     /\ UNCHANGED <<txVars, layerTransactions, opVars, callVars, grpVars>>
                ELSE Commit(current[l], rest)
  /\ UNCHANGED containers

CommitDone ==
  /\ Inside("committing") /\ Top.layers = {}
  /\ stack' = Rest
  /\ UNCHANGED <<txVars, boxVars, opVars, callVars, grpVars>>

\* The main queue runs the group's notification: completeTransaction.
RunNotification(t) ==
  /\ stack = <<>>
  /\ Group!RunNotification(t)
  /\ EnterComplete(t, <<>>)
  /\ UNCHANGED <<txVars, boxVars, opVars, callVars>>

\* The loop of completeTransaction calls the completion block that is set ...
CallCompletion ==
  /\ Inside("completing") /\ Top.i <= Len(operations[Top.t])
  /\ LET o == operations[Top.t][Top.i]
     IN  IF completion[o]
           THEN /\ calls' = [calls EXCEPT ![o] = @ + 1]
                /\ stack' = <<InCallback(Top.t, Top.i, Top.canceled)>> \o Rest
           ELSE /\ stack' = <<Completing(Top.t, Top.i + 1, Top.canceled)>> \o Rest
                /\ UNCHANGED calls
  /\ UNCHANGED <<txVars, boxVars, opVars, completion, completed, grpVars>>

\* ... and releases it when it returns.
ReturnFromCallback ==
  /\ Inside("callback")
  /\ completion' = [completion EXCEPT ![operations[Top.t][Top.i]] = FALSE]
  /\ stack' = <<Completing(Top.t, Top.i + 1, Top.canceled)>> \o Rest
  /\ UNCHANGED <<txVars, boxVars, opVars, calls, completed, grpVars>>

\* After the last one the transaction is complete and says so to its layer.
FinishComplete ==
  /\ Inside("completing") /\ Top.i > Len(operations[Top.t])
  /\ state' = [state EXCEPT ![Top.t] = "complete"]
  /\ Detach(Top.t)
  /\ stack' = <<InHook(Top.t)>> \o Rest
  /\ UNCHANGED <<operations, layerOf, current, containers, opVars, completion,
                 calls, grpVars>>

\* The hook displays, or does nothing, as that of the base class, and returns.
ReturnFromHook ==
  /\ Inside("hook")
  /\ stack' = Rest
  /\ UNCHANGED <<txVars, boxVars, opVars, callVars, grpVars>>

------------------------------------------------------------------------------
(* Worker threads and object lifetime. *)

TransactionOf(o) == CHOOSE t \in Transactions : o \in ToSet(operations[t])

\* The block yields a value unless it finds the transaction canceled ...
RunBlock(o) ==
  /\ block[o] = "scheduled"
  /\ block' = [block EXCEPT ![o] = "ran"]
  /\ value' = [value EXCEPT ![o] = state[TransactionOf(o)] # "canceled"]
  /\ UNCHANGED <<txVars, boxVars, callVars, grpVars, stack>>

\* Faulty variant: a block that was skipped does not leave the group.
FaultyLeaveGroup(o) ==
  /\ block[o] = "ran" /\ value[o]
  /\ block' = [block EXCEPT ![o] = "none"]
  /\ Group!Leave(o, TransactionOf(o))
  /\ UNCHANGED <<txVars, boxVars, value, callVars, stack>>

\* ... and then leaves the group.
LeaveGroup(o) ==
  /\ block[o] = "ran"
  /\ block' = [block EXCEPT ![o] = "none"]
  /\ Group!Leave(o, TransactionOf(o))
  /\ UNCHANGED <<txVars, boxVars, value, callVars, stack>>

Referenced(t) ==
  \/ \E l \in Layers : t = current[l] \/ t \in layerTransactions[l]
  \/ ~Group!Empty(t) \/ t \in due \/ t \in awaiting[t]
  \/ OnStack(t)

\* The last reference goes away; the object and its operations are gone.
Dealloc(t) ==
  /\ state[t] # "none" /\ ~Referenced(t)
  /\ LET mine == ToSet(operations[t])
     IN  /\ value' = [o \in Ops |-> o \notin mine /\ value[o]]
         /\ completion' = [o \in Ops |-> o \notin mine /\ completion[o]]
         /\ calls' = [o \in Ops |-> IF o \in mine THEN 0 ELSE calls[o]]
  /\ state' = [state EXCEPT ![t] = "none"]
  /\ operations' = [operations EXCEPT ![t] = <<>>]
  /\ layerOf' = [layerOf EXCEPT ![t] = NoLayer]
  /\ completed' = [completed EXCEPT ![t] = 0]
  /\ UNCHANGED <<boxVars, block, grpVars, stack>>

ClientStep ==
  \E l \in Layers :
    \/ CancelAsyncTransactions(l)
    \/ \E t \in Transactions :
         \/ GetTransaction(l, t) \/ WaitUntilComplete(l, t)
         \/ \E o \in Ops : AddOperation(l, t, o)

\* The steps by which main leaves the methods it is inside.
MainStep ==
  \/ FinishCancel \/ WaitOver \/ WaitComplete \/ CommitContainer \/ CommitDone
  \/ CallCompletion \/ ReturnFromCallback \/ FinishComplete \/ ReturnFromHook

Next ==
  \/ ClientStep \/ MainStep \/ RunLoopCommit
  \/ \E t \in Transactions : RunNotification(t) \/ Dealloc(t)
  \/ \E o \in Ops : RunBlock(o) \/ LeaveGroup(o)

Spec == Init /\ [][Next]_vars

\* Blocks that GCD was given run.  Main leaves every method it enters, client
\* callbacks return however much they do first, and between two callbacks the
\* run loop again and again serves its main queue and its observers.
Fairness ==
  /\ \A o \in Ops : WF_vars(RunBlock(o)) /\ WF_vars(LeaveGroup(o))
  /\ WF_vars(FinishCancel) /\ WF_vars(WaitOver) /\ WF_vars(WaitComplete)
  /\ WF_vars(CommitContainer) /\ WF_vars(CommitDone)
  /\ WF_vars(CallCompletion) /\ WF_vars(FinishComplete)
  /\ SF_vars(ReturnFromCallback) /\ SF_vars(ReturnFromHook)
  /\ SF_vars(RunLoopCommit)
  /\ \A t \in Transactions : SF_vars(RunNotification(t))

FairSpec == Spec /\ Fairness

------------------------------------------------------------------------------
\* The state has the types the code declares, and no trace is left of a
\* transaction that was deallocated.
TypeOK ==
  /\ state \in [Transactions ->
                 {"none", "open", "committed", "canceled", "complete"}]
  /\ operations \in [Transactions -> Seq(Ops)]
  /\ layerOf \in [Transactions -> Layers \cup {NoLayer}]
  /\ current \in [Layers -> Transactions \cup {NoTransaction}]
  /\ layerTransactions \in [Layers -> SUBSET Transactions]
  /\ containers \in SUBSET Layers
  /\ block \in [Ops -> {"none", "scheduled", "ran"}]
  /\ value \in [Ops -> BOOLEAN] /\ completion \in [Ops -> BOOLEAN]
  /\ calls \in [Ops -> Nat] /\ completed \in [Transactions -> Nat]
  /\ \A t \in Transactions : state[t] = "none" =>
       operations[t] = <<>> /\ layerOf[t] = NoLayer /\ completed[t] = 0

\* A completion block is only called when the transaction was committed and
\* every one of its operations has left the group, whether the group, a wait
\* or a nested wait brought main there (_ASAsyncTransaction.h:37, 122-123).
CallbacksFollowOperations ==
  Inside("callback") =>
    Group!Empty(Top.t) /\ state[Top.t] \in {"committed", "canceled"}

\* No completion block runs twice and no transaction completes twice, though
\* completeTransaction is reached by the notification and by waits (409-411).
CallbacksRunOnce ==
  (\A o \in Ops : calls[o] <= 1) /\ (\A t \in Transactions : completed[t] <= 1)

\* A callback that is told "not canceled" has the value its block produced:
\* no block of an uncanceled transaction was skipped (365, 404-406).
UncanceledHaveValues ==
  Inside("callback") /\ ~Top.canceled =>
    \A o \in ToSet(operations[Top.t]) : value[o]

\* Operations only join open transactions (the assertion at line 357), also
\* those that a hook adds in the midst of a commit of the main group, which has
\* yet to commit other layers, of a completion, or of another layer's
\* cancellation: a transaction leaves its layer before it is committed.
OperationsJoinOpen ==
  [][\A t \in Transactions :
       Len(operations'[t]) > Len(operations[t]) => state'[t] = "open"]_vars

\* "Every operation completion block is guaranteed to execute" (h:38).
CallbacksHappen == \A o \in Ops : completion[o] ~> ~completion[o]

\* Every wait for a transaction ends.
WaitsEnd == Inside("waiting") ~> ~Inside("waiting")
==============================================================================
