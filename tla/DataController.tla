---------------------------- MODULE DataController ----------------------------
(***************************************************************************)
(* The update pipeline of ASDataController, with the ASMainSerialQueue it  *)
(* runs its blocks on: main latches the data source's new state in         *)
(* pendingMap, the serial editing queue lays the new elements out, and a   *)
(* block on the main serial queue hands the change set to the view, which  *)
(* deploys the map as visibleMap and calls the change set's completion     *)
(* handler.                                                                *)
(*                                                                         *)
(* Main is re-entered: completion handlers and callbacks are client code   *)
(* that submits, waits and relayouts again, and a wait runs the blocks of  *)
(* the main serial queue on top of the block that is running.  stack holds *)
(* the methods main is inside, innermost first.  A map is named by its     *)
(* position in the order in which maps were made, and so are the elements  *)
(* that it brought in.                                                     *)
(***************************************************************************)
EXTENDS Naturals, Sequences, FiniteSets

CONSTANTS
  Updates,           \* change sets, each submitted at most once
  Callbacks,         \* blocks given to onDidFinishProcessingUpdates:
  SyncBlocks,        \* blocks given to onDidFinishSynchronizing:
  Optimized,         \* ASExperimentalOptimizeDataControllerPipeline
  ViewDefers,        \* may the view consume a batch update later?
  ReplacesMaps,      \* does the client relayout all nodes and clear data?
  SubmitsBetween,    \* may a completion handler or a callback submit an
                     \* update while a relayout or a clear waits behind it?
  MaxDepth,          \* bound: methods main is inside at once
  MaxMaps,           \* bound: maps made
  MaxTraits          \* bound: changes of the trait collection

ASSUME FlagsAssumption ==
  {Optimized, ViewDefers, ReplacesMaps, SubmitsBetween} \subseteq BOOLEAN
ASSUME BoundsAssumption ==
  MaxDepth \in Nat /\ MaxMaps \in Nat /\ MaxTraits \in Nat

VARIABLES
  pendingMap, visibleMap,
  initialReload,     \* _initialReloadDataHasBeenCalled
  synchronized,      \* _synchronized
  syncBlocks,        \* _onDidFinishSynchronizingBlocks
  editingQueue,      \* _editingTransactionQueue, the running item first
  editing,           \* how far the editing thread is in that item
  editingCount,      \* _editingTransactionGroupCount
  blocks,            \* the blocks of _mainSerialQueue
  mainQueue,         \* blocks dispatched asynchronously to main
  stack,             \* the methods the main thread is inside
  status, mapOf, isReload,   \* of each update
  deferred,          \* batch updates the view has not consumed
  animating,         \* updates whose animations have not ended
  traits,            \* the node's primitiveTraitCollection
  elementTraits,     \* traitCollection of the elements each map brought in
  ran                \* how often each callback or block was run

mapVars     == <<pendingMap, visibleMap>>
syncVars    == <<synchronized, syncBlocks>>
editVars    == <<editingQueue, editing, editingCount>>
updateVars  == <<initialReload, status, mapOf, isReload>>
viewVars    == <<deferred, animating>>
traitVars   == <<traits, elementTraits>>
dataVars    == <<mapVars, syncVars, updateVars, viewVars, traitVars>>
notStack    == <<dataVars, editVars, blocks, mainQueue, ran>>
vars == <<mapVars, syncVars, editVars, updateVars, viewVars, traitVars,
          blocks, mainQueue, stack, ran>>

Maps == 0 .. MaxMaps

Init ==
  /\ pendingMap = 0 /\ visibleMap = 0
  /\ initialReload = FALSE
  /\ synchronized = TRUE /\ syncBlocks = {}
  /\ editingQueue = <<>> /\ editing = "idle" /\ editingCount = 0
  /\ blocks = <<>> /\ mainQueue = <<>> /\ stack = <<>>
  /\ status = [u \in Updates |-> "none"]
  /\ mapOf = [u \in Updates |-> 0]
  /\ isReload = [u \in Updates |-> FALSE]
  /\ deferred = <<>> /\ animating = {}
  /\ traits = 0 /\ elementTraits = [m \in Maps |-> 0]
  /\ ran = [c \in Callbacks \cup SyncBlocks |-> 0]

------------------------------------------------------------------------------
(* Items of the queues, and the methods main can be inside. *)

UpdateItem(u) == [kind |-> "update", update |-> u]
NoopItem      == [kind |-> "noop"]
RelayoutItem  == [kind |-> "relayout"]
TraitsItem    == [kind |-> "traits"]

\* onDidFinishProcessingUpdates: asks again for callback c, or for the
\* synchronization blocks.
RetryItem(c)  == [kind |-> "retry", callback |-> c]
RetrySync     == [kind |-> "retrySync"]
RunItem       == [kind |-> "run"]
TraitsChanged == [kind |-> "environment"]

Submitting(u)     == [kind |-> "submitting", update |-> u]
Waiting(item, m)  == [kind |-> "waiting", item |-> item, from |-> m]
Running           == [kind |-> "running"]
Waited(m)         == [kind |-> "waited", from |-> m]
Clearing          == [kind |-> "clearing"]
Completion(u)     == [kind |-> "completion", update |-> u]
Checking(retry)   == [kind |-> "checking", retry |-> retry]
Synchronizing(S)  == [kind |-> "synchronizing", left |-> S]
Callback          == [kind |-> "callback"]

Inside(kind) == stack # <<>> /\ Head(stack).kind = kind
Top  == Head(stack)
Rest == Tail(stack)

\* Client code runs between run loop events and in the blocks it gave.
ClientRuns ==
  /\ stack = <<>> \/ Inside("completion") \/ Inside("callback")
  /\ Len(stack) < MaxDepth

Items(queue) == {queue[i] : i \in DOMAIN queue}

\* A block that replaces both maps waits for the blocks before it.
Replacing ==
  \/ RelayoutItem \in Items(blocks)
  \/ Clearing \in Items(stack)

\* Bound: the maps that were made and those main has begun to make.
Room ==
  pendingMap + Cardinality({u \in Updates : status[u] = "submitted"})
    + Cardinality({i \in DOMAIN stack :
                     \/ stack[i] = Clearing
                     \/ stack[i].kind = "waiting" /\ stack[i].item = RelayoutItem})
    + Cardinality({i \in DOMAIN blocks : blocks[i] = RelayoutItem}) < MaxMaps

\* dispatch_group_wait returns: no item of the group is left.
GroupEmpty == \A u \in Updates : UpdateItem(u) \notin Items(editingQueue)

\* Faulty variant: forgets to try again while the queue has blocks.
DroppingStartCheck(retry, rest) ==
  /\ stack' = (IF blocks = <<>> THEN <<Checking(retry)>> ELSE <<>>) \o rest
  /\ UNCHANGED editingQueue

\* onDidFinishProcessingUpdates: reads the length of the main serial queue.
StartCheck(retry, rest) ==
  IF blocks = <<>>
    THEN stack' = <<Checking(retry)>> \o rest /\ UNCHANGED editingQueue
    ELSE stack' = rest /\ editingQueue' = Append(editingQueue, retry)

------------------------------------------------------------------------------
(* What client code calls on the main thread. *)

\* performBatchUpdates:completion:, up to the wait in updateWithChangeSet:.
Submit(u, reload) ==
  /\ ClientRuns
  /\ Room
  /\ SubmitsBetween \/ ~Replacing
  /\ status[u] = "none"
  /\ synchronized' = FALSE
  /\ status' = [status EXCEPT ![u] = "submitted"]
  /\ isReload' = [isReload EXCEPT ![u] = reload]
  /\ initialReload' = (initialReload \/ reload)
  /\ stack' = <<Submitting(u)>> \o stack
  /\ UNCHANGED <<mapVars, syncBlocks, editVars, mapOf, viewVars, traitVars,
                 blocks, mainQueue, ran>>

WaitUntilAllUpdatesAreProcessed ==
  /\ ClientRuns
  /\ stack' = <<Waiting(NoopItem, pendingMap)>> \o stack
  /\ UNCHANGED notStack

RelayoutAllNodes ==
  /\ ReplacesMaps
  /\ ClientRuns /\ Room /\ initialReload
  /\ stack' = <<Waiting(RelayoutItem, pendingMap)>> \o stack
  /\ UNCHANGED notStack

\* Called when the view lost its data source and its delegate.
ClearData ==
  /\ ReplacesMaps
  /\ ClientRuns /\ Room /\ initialReload
  /\ stack' = <<Waiting(NoopItem, pendingMap), Clearing>> \o stack
  /\ UNCHANGED notStack

OnDidFinishProcessingUpdates(c) ==
  /\ ClientRuns
  /\ ran[c] = 0
  /\ \A i \in DOMAIN stack : stack[i] # Checking(RetryItem(c))
  /\ RetryItem(c) \notin Items(editingQueue) \cup Items(mainQueue)
  /\ StartCheck(RetryItem(c), stack)
  /\ UNCHANGED <<dataVars, editing, editingCount, blocks, mainQueue, ran>>

\* The block is run at once or kept for the end of the last update.
OnDidFinishSynchronizing(b) ==
  /\ ClientRuns
  /\ ran[b] = 0 /\ b \notin syncBlocks
  /\ IF synchronized
       THEN /\ ran' = [ran EXCEPT ![b] = @ + 1]
            /\ stack' = <<Callback>> \o stack
            /\ UNCHANGED syncBlocks
       ELSE syncBlocks' = syncBlocks \cup {b} /\ UNCHANGED <<ran, stack>>
  /\ UNCHANGED <<mapVars, synchronized, editVars, updateVars, viewVars,
                 traitVars, blocks, mainQueue>>

\* setPrimitiveTraitCollection: on main, or on another thread, which leaves
\* the rest to main.
EnvironmentChange(onMain) ==
  /\ traits < MaxTraits
  /\ traits' = traits + 1
  /\ IF onMain
       THEN /\ ClientRuns
            /\ stack' = (IF initialReload THEN <<Waiting(TraitsItem, pendingMap)>>
                                          ELSE <<>>) \o stack
            /\ UNCHANGED mainQueue
       ELSE mainQueue' = Append(mainQueue, TraitsChanged) /\ UNCHANGED stack
  /\ UNCHANGED <<mapVars, syncVars, editVars, updateVars, viewVars,
                 elementTraits, blocks, ran>>

\* A completion handler of the client, or a callback, that does no more.  The
\* controller's own handler follows the client's.
CallbackReturns ==
  /\ Inside("callback")
  /\ stack' = Rest
  /\ UNCHANGED notStack

CompletionReturns ==
  /\ Inside("completion")
  /\ status' = [status EXCEPT ![Top.update] = "completed"]
  /\ synchronized' = TRUE
  /\ StartCheck(RetrySync, Rest)
  /\ UNCHANGED <<mapVars, syncBlocks, editing, editingCount, initialReload,
                 mapOf, isReload, viewVars, traitVars, blocks, mainQueue,
                 ran>>

------------------------------------------------------------------------------
(* Main, inside the controller. *)

\* A new map whose elements take the traits of the moment.
MakeMap ==
  /\ pendingMap < MaxMaps
  /\ pendingMap' = pendingMap + 1
  /\ elementTraits' = [elementTraits EXCEPT ![pendingMap + 1] = traits]

\* The rest of updateWithChangeSet:.  Before the first reload nothing is
\* latched; an empty change set keeps the map; the data source may ask main
\* to wait for the update.
Latch(empty, wait) ==
  /\ Inside("submitting")
  /\ Optimized \/ GroupEmpty
  /\ LET u == Top.update IN
     IF ~initialReload
       THEN /\ stack' = <<Completion(u)>> \o Rest
            /\ UNCHANGED <<mapVars, elementTraits, mapOf, status, editVars>>
       ELSE /\ IF empty
                 THEN ~isReload[u] /\ UNCHANGED <<pendingMap, elementTraits>>
                 ELSE MakeMap
            /\ mapOf' = [mapOf EXCEPT ![u] = pendingMap']
            /\ status' = [status EXCEPT ![u] = "latched"]
            /\ editingCount' = editingCount + 1
            /\ editingQueue' = Append(editingQueue, UpdateItem(u))
            /\ stack' = (IF wait THEN <<Waiting(NoopItem, pendingMap')>> ELSE <<>>)
                          \o Rest
            /\ UNCHANGED <<visibleMap, editing>>
  /\ UNCHANGED <<syncVars, initialReload, isReload, viewVars, traits, blocks,
                 mainQueue, ran>>

\* Faulty variant: does not wait for the group.
HastyEndWait ==
  /\ Inside("waiting")
  /\ blocks' = Append(blocks, Top.item)
  /\ stack' = <<Running>>
              \o (IF Top.item = NoopItem THEN <<Waited(Top.from)>> ELSE <<>>)
              \o Rest
  /\ UNCHANGED <<dataVars, editVars, mainQueue, ran>>

\* _scheduleBlockOnMainSerialQueue: the group is empty; push the block and
\* run what is on the queue.
EndWait ==
  /\ Inside("waiting")
  /\ GroupEmpty
  /\ blocks' = Append(blocks, Top.item)
  /\ stack' = <<Running>>
              \o (IF Top.item = NoopItem THEN <<Waited(Top.from)>> ELSE <<>>)
              \o Rest
  /\ UNCHANGED <<dataVars, editVars, mainQueue, ran>>

WaitReturns ==
  /\ Inside("waited")
  /\ stack' = Rest
  /\ UNCHANGED notStack

\* clearData: both maps are the new, empty one.
FinishClear ==
  /\ Inside("clearing")
  /\ MakeMap
  /\ visibleMap' = pendingMap'
  /\ stack' = Rest
  /\ UNCHANGED <<syncVars, editVars, updateVars, viewVars, traits, blocks,
                 mainQueue, ran>>

\* The runBlocks loop takes the next block off the queue.
NextBlock(kind) ==
  /\ Inside("running") /\ blocks # <<>>
  /\ Head(blocks).kind = kind
  /\ blocks' = Tail(blocks)

RunNoop ==
  /\ NextBlock("noop")
  /\ UNCHANGED <<dataVars, editVars, mainQueue, stack, ran>>

RunRelayout ==
  /\ NextBlock("relayout")
  /\ MakeMap
  /\ visibleMap' = pendingMap'
  /\ UNCHANGED <<syncVars, editVars, updateVars, viewVars, traits, mainQueue,
                 stack, ran>>

\* Faulty variant: only the elements that came last take the traits.
LatestRunTraits ==
  /\ NextBlock("traits")
  /\ elementTraits' = [elementTraits EXCEPT ![visibleMap] = traits]
  /\ UNCHANGED <<mapVars, syncVars, editVars, updateVars, viewVars, traits,
                 mainQueue, stack, ran>>

\* environmentDidChange: the elements on display take the traits.
RunTraits ==
  /\ NextBlock("traits")
  /\ elementTraits' = [m \in Maps |->
                         IF m <= visibleMap THEN traits ELSE elementTraits[m]]
  /\ UNCHANGED <<mapVars, syncVars, editVars, updateVars, viewVars, traits,
                 mainQueue, stack, ran>>

\* The view displays the map and the change set completes at once:
\* reloadData, a table, or a view without a data source.
DeliverAtOnce ==
  /\ NextBlock("update") /\ deferred = <<>>
  /\ LET u == Head(blocks).update IN
       /\ visibleMap' = mapOf[u]
       /\ status' = [status EXCEPT ![u] = "deployed"]
       /\ stack' = <<Completion(u)>> \o stack
  /\ UNCHANGED <<pendingMap, syncVars, editVars, initialReload, mapOf,
                 isReload, viewVars, traitVars, mainQueue, ran>>

\* performBatchUpdates:completionHandler: of the view: the update block runs
\* now, the completion handler when the animations have ended.
DeliverAnimated ==
  /\ NextBlock("update")
  /\ LET u == Head(blocks).update IN
       /\ ~isReload[u] /\ deferred = <<>>
       /\ visibleMap' = mapOf[u]
       /\ status' = [status EXCEPT ![u] = "deployed"]
       /\ animating' = animating \cup {u}
  /\ UNCHANGED <<pendingMap, syncVars, editVars, initialReload, mapOf,
                 isReload, deferred, traitVars, mainQueue, stack, ran>>

\* The view is busy and keeps the update block.
DeliverDeferred ==
  /\ ViewDefers
  /\ NextBlock("update")
  /\ ~isReload[Head(blocks).update]
  /\ deferred' = Append(deferred, Head(blocks).update)
  /\ UNCHANGED <<mapVars, syncVars, editVars, updateVars, animating,
                 traitVars, mainQueue, stack, ran>>

QueueDrained ==
  /\ Inside("running") /\ blocks = <<>>
  /\ stack' = Rest
  /\ UNCHANGED notStack

\* onDidFinishProcessingUpdates: reads the count and runs the block, or lets
\* the editing queue bring it back to main.
FinishCheck ==
  /\ Inside("checking")
  /\ IF editingCount > 0
       THEN /\ editingQueue' = Append(editingQueue, Top.retry)
            /\ stack' = Rest
            /\ UNCHANGED ran
       ELSE /\ IF Top.retry = RetrySync
                 THEN /\ stack' = (IF synchronized THEN <<Synchronizing(syncBlocks)>>
                                                   ELSE <<>>) \o Rest
                      /\ UNCHANGED ran
                 ELSE /\ stack' = <<Callback>> \o Rest
                      /\ ran' = [ran EXCEPT ![Top.retry.callback] = @ + 1]
            /\ UNCHANGED editingQueue
  /\ UNCHANGED <<dataVars, editing, editingCount, blocks, mainQueue>>

\* The controller's completion handler runs the blocks that waited, in any
\* order.
RunSyncBlock(b) ==
  /\ Inside("synchronizing") /\ b \in Top.left
  /\ ran' = [ran EXCEPT ![b] = @ + 1]
  /\ stack' = <<Callback, Synchronizing(Top.left \ {b})>> \o Rest
  /\ UNCHANGED <<dataVars, editVars, blocks, mainQueue>>

RemoveSyncBlocks ==
  /\ Inside("synchronizing") /\ Top.left = {}
  /\ syncBlocks' = {}
  /\ stack' = Rest
  /\ UNCHANGED <<mapVars, synchronized, editVars, updateVars, viewVars,
                 traitVars, blocks, mainQueue, ran>>

------------------------------------------------------------------------------
(* The editing thread and the run loop of main. *)

EditingItem == Head(editingQueue)
EditingUpdate == editingQueue # <<>> /\ EditingItem.kind = "update"

\* Faulty variant: pushes in front of the other blocks.
FrontPushUpdate ==
  /\ EditingUpdate /\ editing = "idle"
  /\ blocks' = <<EditingItem>> \o blocks
  /\ editing' = "pushed"
  /\ UNCHANGED <<dataVars, editingQueue, editingCount, mainQueue, stack, ran>>

\* The elements are laid out: push the block that hands the update over.
PushUpdate ==
  /\ EditingUpdate /\ editing = "idle"
  /\ blocks' = Append(blocks, EditingItem)
  /\ editing' = "pushed"
  /\ UNCHANGED <<dataVars, editingQueue, editingCount, mainQueue, stack, ran>>

\* Faulty variant: takes main to be running the queue when it is busy.
BusyDispatchRun ==
  /\ editing = "pushed"
  /\ mainQueue' = IF stack = <<>> THEN Append(mainQueue, RunItem) ELSE mainQueue
  /\ editing' = "dispatched"
  /\ UNCHANGED <<dataVars, editingQueue, editingCount, blocks, stack, ran>>

\* runBlocks, not on main: main is to run the queue.
DispatchRun ==
  /\ editing = "pushed"
  /\ mainQueue' = Append(mainQueue, RunItem)
  /\ editing' = "dispatched"
  /\ UNCHANGED <<dataVars, editingQueue, editingCount, blocks, stack, ran>>

Uncount ==
  /\ editing = "dispatched"
  /\ editingCount' = editingCount - 1
  /\ editing' = "counted"
  /\ UNCHANGED <<dataVars, editingQueue, blocks, mainQueue, stack, ran>>

\* The block returns and leaves the group.
LeaveGroup ==
  /\ editing = "counted"
  /\ editingQueue' = Tail(editingQueue)
  /\ editing' = "idle"
  /\ UNCHANGED <<dataVars, editingCount, blocks, mainQueue, stack, ran>>

BringRetryToMain ==
  /\ editingQueue # <<>> /\ editing = "idle" /\ ~EditingUpdate
  /\ mainQueue' = Append(mainQueue, EditingItem)
  /\ editingQueue' = Tail(editingQueue)
  /\ UNCHANGED <<dataVars, editing, editingCount, blocks, stack, ran>>

EditingStep ==
  PushUpdate \/ DispatchRun \/ Uncount \/ LeaveGroup \/ BringRetryToMain

\* The run loop runs the next block that was dispatched to main.
MainItem(kind) ==
  /\ stack = <<>> /\ mainQueue # <<>>
  /\ Head(mainQueue).kind = kind
  /\ mainQueue' = Tail(mainQueue)

RunBlocks ==
  /\ MainItem("run")
  /\ stack' = <<Running>>
  /\ UNCHANGED <<dataVars, editVars, blocks, ran>>

Retry ==
  /\ MainItem("retry") \/ MainItem("retrySync")
  /\ StartCheck(Head(mainQueue), <<>>)
  /\ UNCHANGED <<dataVars, editing, editingCount, blocks, ran>>

EnvironmentDidChange ==
  /\ MainItem("environment")
  /\ stack' = IF initialReload THEN <<Waiting(TraitsItem, pendingMap)>> ELSE <<>>
  /\ UNCHANGED <<dataVars, editVars, blocks, ran>>

\* The view gets to the next update block it kept, in its own time or when it
\* is given another update.
ConsumeUpdate ==
  /\ stack = <<>> \/ Inside("running")
  /\ deferred # <<>>
  /\ LET u == Head(deferred) IN
       /\ visibleMap' = mapOf[u]
       /\ status' = [status EXCEPT ![u] = "deployed"]
       /\ animating' = animating \cup {u}
  /\ deferred' = Tail(deferred)
  /\ UNCHANGED <<pendingMap, syncVars, editVars, initialReload, mapOf,
                 isReload, traitVars, blocks, mainQueue, stack, ran>>

\* Faulty variant: completes an update the view has not consumed.
EarlyAnimationsEnd(u) ==
  /\ stack = <<>> /\ u \in animating \cup Items(deferred)
  /\ animating' = animating \ {u}
  /\ stack' = <<Completion(u)>>
  /\ UNCHANGED <<mapVars, syncVars, editVars, updateVars, deferred, traitVars,
                 blocks, mainQueue, ran>>

AnimationsEnd(u) ==
  /\ stack = <<>> /\ u \in animating
  /\ animating' = animating \ {u}
  /\ stack' = <<Completion(u)>>
  /\ UNCHANGED <<mapVars, syncVars, editVars, updateVars, deferred, traitVars,
                 blocks, mainQueue, ran>>

------------------------------------------------------------------------------
ClientStep ==
  \/ \E u \in Updates, reload \in BOOLEAN : Submit(u, reload)
  \/ WaitUntilAllUpdatesAreProcessed \/ RelayoutAllNodes \/ ClearData
  \/ \E c \in Callbacks : OnDidFinishProcessingUpdates(c)
  \/ \E b \in SyncBlocks : OnDidFinishSynchronizing(b)
  \/ \E onMain \in BOOLEAN : EnvironmentChange(onMain)

\* What main does without waiting for anyone but the editing thread.
MainStep ==
  \/ CallbackReturns \/ CompletionReturns
  \/ \E empty, wait \in BOOLEAN : Latch(empty, wait)
  \/ EndWait \/ WaitReturns \/ FinishClear
  \/ RunNoop \/ RunRelayout \/ RunTraits
  \/ DeliverAtOnce \/ DeliverAnimated \/ DeliverDeferred
  \/ QueueDrained \/ FinishCheck
  \/ \E b \in SyncBlocks : RunSyncBlock(b)
  \/ RemoveSyncBlocks
  \/ RunBlocks \/ Retry \/ EnvironmentDidChange

ViewStep == ConsumeUpdate \/ \E u \in Updates : AnimationsEnd(u)

Next == ClientStep \/ MainStep \/ ViewStep \/ EditingStep

Spec == Init /\ [][Next]_vars

\* GCD runs what the serial queue and the main queue hold, client code
\* returns however much it does first, the run loop again and again serves
\* the main queue, and the view consumes updates and ends animations.
Fairness ==
  /\ WF_vars(EditingStep) /\ WF_vars(MainStep)
  /\ SF_vars(CallbackReturns) /\ SF_vars(CompletionReturns)
  /\ SF_vars(RunBlocks \/ Retry \/ EnvironmentDidChange)
  /\ SF_vars(ConsumeUpdate) /\ \A u \in Updates : SF_vars(AnimationsEnd(u))

FairSpec == Spec /\ Fairness

------------------------------------------------------------------------------
\* The update waits for the editing thread or on the main serial queue.
OnTheWay(u) ==
  \/ UpdateItem(u) \in Items(blocks)
  \/ \E i \in DOMAIN editingQueue :
       editingQueue[i] = UpdateItem(u) /\ (i = 1 => editing = "idle")

Frames ==
  {Running, Clearing, Callback, Checking(RetrySync)}
    \cup {Submitting(u) : u \in Updates} \cup {Completion(u) : u \in Updates}
    \cup {Waiting(i, m) : i \in {NoopItem, RelayoutItem, TraitsItem}, m \in Maps}
    \cup {Waited(m) : m \in Maps}
    \cup {Checking(RetryItem(c)) : c \in Callbacks}
    \cup {Synchronizing(S) : S \in SUBSET SyncBlocks}

UpdateItems == {UpdateItem(u) : u \in Updates}
RetryItems  == {RetryItem(c) : c \in Callbacks} \cup {RetrySync}

\* The state has the types the code declares.
TypeOK ==
  /\ pendingMap \in Maps /\ visibleMap \in Maps
  /\ initialReload \in BOOLEAN /\ synchronized \in BOOLEAN
  /\ syncBlocks \in SUBSET SyncBlocks
  /\ editingQueue \in Seq(UpdateItems \cup RetryItems)
  /\ editing \in {"idle", "pushed", "dispatched", "counted"}
  /\ editingCount \in Nat
  /\ blocks \in Seq(UpdateItems \cup {NoopItem, RelayoutItem, TraitsItem})
  /\ mainQueue \in Seq({RunItem, TraitsChanged} \cup RetryItems)
  /\ stack \in Seq(Frames)
  /\ status \in [Updates -> {"none", "submitted", "latched", "deployed", "completed"}]
  /\ mapOf \in [Updates -> Maps] /\ isReload \in [Updates -> BOOLEAN]
  /\ deferred \in Seq(Updates) /\ animating \in SUBSET Updates
  /\ traits \in 0 .. MaxTraits /\ elementTraits \in [Maps -> 0 .. MaxTraits]
  /\ ran \in [Callbacks \cup SyncBlocks -> Nat]

\* _relayoutAllNodes runs with both maps the same (the assertion at line
\* 902), in whatever client code the relayout was asked for.
RelayoutFindsMapsEqual ==
  Inside("running") /\ blocks # <<>> /\ Head(blocks) = RelayoutItem =>
    visibleMap = pendingMap

\* A wait that returns has displayed every map that was made before it, also
\* a wait inside a completion handler that a wait runs ("Blocks ... until all
\* section and item updates are committed", ASCollectionNode.h:317).
WaitShowsUpdates == Inside("waited") => Top.from <= visibleMap

\* A change set completes after its map was displayed, also when the view
\* animates or holds it, and once.
CompletionFollowsDeploy ==
  /\ \A u \in Updates : Completion(u) \in Items(stack) =>
       \/ status[u] = "deployed"
       \/ status[u] = "submitted" /\ mapOf[u] = 0
  /\ \A i, j \in DOMAIN stack :
       (stack[i].kind = "completion" /\ stack[i] = stack[j]) => i = j

\* When no update is on its way and main has heard of every change of the
\* traits, the elements on display have them, those laid out with the old
\* ones included (ASDataController.h:260-262, mm:942-948).
TraitsReachElements ==
  (/\ GroupEmpty /\ blocks = <<>> /\ deferred = <<>>
   /\ TraitsChanged \notin Items(mainQueue)
   /\ \A i \in DOMAIN stack :
        stack[i].kind = "waiting" => stack[i].item # TraitsItem)
  => \A m \in 1 .. visibleMap : elementTraits[m] = traits

\* The two maps move as ElementMaps says: each map is displayed, in order.
Abstract == INSTANCE ElementMaps
ImplementsElementMaps == Abstract!Spec

\* Every change set that is submitted completes.
UpdatesComplete ==
  \A u \in Updates : status[u] = "submitted" ~> status[u] = "completed"

\* A block that asks to run when the updates are processed is brought back to
\* main until it does run (ASCollectionNode.h:302-310).
CallbacksRun ==
  \A c \in Callbacks : RetryItem(c) \in Items(editingQueue) ~> ran[c] > 0

\* "Returns NO if ASCollectionNode is fully synchronized with the underlying
\* UICollectionView" (ASCollectionNode.h:293): when the check says NO, no
\* update is on its way.
NotProcessingMeansDone ==
  Inside("checking") /\ editingCount = 0 =>
    \A u \in Updates : ~OnTheWay(u)

==============================================================================
