# MacTexture in TLA+

MacTexture is a port of Texture (AsyncDisplayKit) to macOS. Nodes stand for
views and layers; layout and drawing happen on other threads and the results
are brought to the main thread in batches. This directory holds TLA+ models of
the parts of the framework where threads, queues and callbacks meet, the TLC
configurations that check them on small instances, and proofs about nine of
them that hold for any instance.

Paths below are relative to `src/Source`. The implementation is in the `.mm`
files; of the headers only the few that hold state or inline code are modelled.

* [The system](#the-system): parts, state, operations, interaction, hazards
* [The models](#the-models): module by module, and how they map to the code
* [Runs](#runs): what is checked, with which bounds
* [Fairness](#fairness)
* [Where the code and its documentation disagree](#where-the-code-and-its-documentation-disagree)
* [Proofs](#proofs)
* [What is not modelled](#what-is-not-modelled)
* [Plan](#plan)

## The system

### Threads

* **main** runs the run loop: events, blocks dispatched to the main queue,
  observers at the end of a turn (commit of the transaction group, of
  CoreAnimation), sources (run loop queues). Most objects are only used there.
  It is *re-entered*: completion blocks are client code, which calls the
  framework again from inside the method that called it.
* **workers**: blocks on a concurrent display queue, at most twice the number
  of processors per queue.
* **the editing thread**: the serial queue of each data controller.
* **others**: clients may change nodes, off main, from anywhere.

### Parts that carry the core logic

| Part | Source | State | Operations |
|---|---|---|---|
| Recursive unfair lock | `Details/ASRecursiveUnfairLock.mm` | an `os_unfair_lock`, owner, count | lock, try lock, unlock |
| Operation queue | `Details/Transactions/_ASAsyncTransaction.mm` 64-316 | per dispatch queue: operations in order and by priority, number of threads; per group: counter, notifications, released | create, release, schedule, notify, enter, leave, wait |
| Transactions | `_ASAsyncTransaction.mm` 318-460, `..Group.mm`, `..Container.mm` | open / committed / canceled / complete, operations with completion blocks; per layer the current one and the live ones; the group's containers | open, add, commit, cancel, wait, complete |
| Data controller | `Details/ASDataController.mm`, `Details/ASMainSerialQueue.mm` | pending and visible element map, editing queue and count, main serial queue, callbacks | submit a change set, wait, relayout, clear, change traits, ask to be called when done |
| Display | `Details/_ASDisplayLayer.mm`, `Private/ASDisplayNode+AsyncDisplay.mm`, `ASDisplayNode.mm` 1264-1452, 1717-1807, 2797-3062 | `_displaySentinel`, layer contents and mark, pending nodes, suspension, display range | set needs display (on and off main), display, display immediately, resize, enter and leave the hierarchy and the range, block until displayed |
| Change sets, maps | `Private/_ASHierarchyChangeSet.mm`, `Details/ASIntegerMap.mm`, `Private/ASMutableElementMap.mm` | sorted changes, index maps | add changes, complete, map indexes |
| Range controllers | `Details/ASRangeController.mm` | `_visibleNodes`, `_allPreviousIndexPaths`, `_rangeIsValid`, `_needsRangeUpdate`, range mode | update ranges, take a change set, clear contents |
| Interface state | `ASDisplayNode.mm` 2797-3062, `ASRunLoopQueue.mm` 286-394 | applied, pending and remembered state of a node, in the hierarchy or not; the nodes in `ASCATransactionQueue` | set, apply, enter and leave the hierarchy |
| Run loop queues | `ASRunLoopQueue.mm` | weak or strong entries, a run loop source | enqueue, process a batch |
| Layout, transitions | `ASDisplayNode+Layout.mm` | calculated and pending layout, `_layoutVersion`, transition ids, LayoutPending | invalidate, measure, lay out, transition, cancel, complete |
| Network images | `ASNetworkImageNode.mm`, `Details/ASBasicImageDownloader.mm` | URL, download id, cache sentinel; contexts shared per URL | set URL, load, cancel, progress, answer |
| Batch fetching | `Private/ASBatchFetching.mm`, `Details/ASBatchContext.mm` | fetching / cancelled / completed | decide, begin, complete, cancel |

Text, layout specs, platform wrappers, IGListKit and Yoga bindings, examples
and documentation surround these; `PROJECT.json` lists every component with
what is done about it.

### How they interact

A display of a node asks for its container layer's transaction; adding the
operation *schedules* it on the operation queue at once; at the end of the run
loop turn the transaction group *commits* it; when the operations have left
the transaction's group, a *notification* on the main queue completes it, which
calls each operation's completion block: that one compares the display sentinel
and sets the layer's contents. Blocking display waits for the group and
completes the transaction on the spot, before the notification comes.

A change set latches the data source's new state in `pendingMap` on main, goes
through the serial editing queue, where its nodes are laid out, and comes back
through the main serial queue to the view, which makes the map its `visibleMap`
in its update block, perhaps later, and then calls the completion handler,
perhaps later still. Waiting blocks main for the editing queue and then runs
the main serial queue, inside whatever main is doing.

A change set that reaches the view makes the ranges invalid; cells that come and
go ask for an update of the ranges, which runs in a later block of main or at the
end of the batch update. It sets the interface state of every cell node, at once
or, with the experiment that coalesces states, through `ASCATransactionQueue`
before CoreAnimation commits. Layers that leave their window end the visible state
on their own, a turn later.

Entering the preload range makes a network image node look its image up and
download it; leaving it cancels and clears. A layout transition measures a node
in the background and commits on main, while layout passes go on.

The range controller moves cells in and out of the display range; that suspends
or resumes display, cancels what is under way, and clears contents. Nodes that
other threads change are collected by the pending state controller and put into
the render queue, both served by main.

### What is hard, and what makes it correct

* *Lock.* The owner is read without the lock. Correct: one holder, no thread
  blocks on itself, the assertions hold, the count nests.
* *Operation queue.* A thread that ends races a scheduling that counts on it;
  two indexes of the same operations; counters with deferred deletion; a
  condition variable with spurious wake-ups. Correct: no operation is stranded,
  the indexes agree, equal priorities keep their order, groups outlive their
  users, waits and notifications happen once and not early.
* *Transactions.* Completion is reached on two ways and re-entered; cancellation
  races workers; commits run client code that opens more. Correct: each
  completion block runs once, in order, after all operations, with the value or
  told that it was canceled; nothing open is forgotten.
* *Data controller.* Pushing a block and lowering the count are two steps;
  the view defers; waits nest; maps are replaced while updates are on the way.
  Correct: maps are displayed in order, a wait shows what was submitted before,
  completions follow the display, callbacks do run.
* *Display.* Displays overlap, are outdated, suspended, overtaken, and asked for
  off main. Correct: a change is never forgotten, contents do not go back, no
  contents stay outside the range, the supernodes know exactly what to wait for.

* *Run loop queue.* Only the first entry is announced, by whoever enqueues it; the
  rest is up to the batch; weak entries die at any moment. Correct: a run loop
  never sleeps on entries, what lives is consumed, "drained" means drained.
* *Layout transitions.* Superseded and cancelled ones go on in the background and
  in main's queue; nodes are inserted and removed meanwhile. Correct: only the last
  one commits, LayoutPending belongs to the one under way and ends with it, a valid
  layout is one of the node as it is.
* *Network image.* The URL changes while lookups and downloads for others are under
  way, and answers come after a cancellation. Correct: what a download brings is of
  the URL, no answer is left or taken outside the preload range, inside it the image
  of the URL is on its way. The cache's answers have no identifier, and the first
  and the last do not hold of them.
* *Ranges.* The paths of the last update are looked up in a map that has changed;
  nodes are deleted while they are visible; layers leave and return. Correct: no
  node dies visible, ranges are exact when they are said to be valid, a layer that
  returns at once is not told it had left.

Every hazard is listed at its line in `PROJECT.json`, with the properties aimed
at it.

## The models

### RecursiveLock, RecursiveUnfairLock

`RecursiveLock` is what clients rely on: a lock that one thread holds some
number of times. `RecursiveUnfairLock` is the code, with a program counter per
thread and each access to `_thread` (variable `thread`), `_count` and the
`os_unfair_lock` as a step: `BeginLock` is the unprotected read of the owner,
`OsLock`/`OsTryLock` the system lock, `DidAcquire`, `Increment`, `BeginUnlock`
(the decrement), `WillRelease`, `OsUnlock` one statement each. `depth` is what
each thread believes. The refinement mapping takes the abstract owner to be the
thread that has the system lock and has counted itself in.

### DispatchGroup, AsyncTransactionQueue

`DispatchGroup` is the contract of a group: members enter and leave, a
notification is due once the group is empty, a wait ends when it is empty.
`AsyncTransactionQueue` is the code. The mutex makes each critical section one
step; a worker's loop is `WorkerTake` (lock, pop, unlock), `WorkerRun`,
`WorkerLeave` (the group's leave), `WorkerExit` (lock, find the queue empty, lower
the thread count). `operationQueue` and `priorityMap` are the two indexes,
`threadCount` is `_threadCount`, with 0 for an erased entry. `Release` and the
last `LeaveGroup` decide who deletes a group (`life`). `wait()` is `BeginWait`,
`ContinueWait` and `SpuriousWakeup`. `maxThreads` may be one less at any
moment, as the code lowers it while the run loop tracks events. Operations,
groups and notification blocks are reused when they are finished.

### AsyncTransaction

Transactions, containers and the main group, on `DispatchGroup` by `INSTANCE`:
what the queue is proved and checked to give is what the transactions build on.
`stack` holds the methods main is inside, innermost first: that is how
re-entrance is modelled. `completeTransaction` is a loop (`CallCompletion`,
`ReturnFromCallback`, `FinishComplete`) with client code running in each
callback; `commit` of the group is a loop over containers in any order;
`WaitOver` commits the whole group first if the transaction is still open, as
`waitUntilComplete` does. `Dealloc` happens when nothing refers to the object.
`WaitsForOwn` says whether a callback waits for a transaction that is being
completed further up the stack.

The hook of a container, called for an empty transaction by its commit and for others
at the end of their completion, may display too: it gets the current transaction of
any layer, in the midst of a commit of the main group (from the run loop or from a
wait), of a completion, or of a cancellation of another layer. It adds operations
as the callbacks do (`Displays`). The base classes' hooks do nothing
(`..Container.mm` 20-22); what the models have are the hooks that the protocol invites
clients to write. Two moments are left to `HooksDisplayAll`, as they break the
properties (see below): a hook called by the cancellation of a layer that displays in
that same layer, and one called by the commit at the start of a wait that adds to the
transaction waited for. The hook that announces a new transaction (72) does the same
as one step earlier or later. Hooks that wait or cancel are not modelled.

### ElementMaps, DataController

`ElementMaps` says how the two maps may move. `DataController` is the update
pipeline with `ASMainSerialQueue`: `Submit` and `Latch` are the two halves of
`updateWithChangeSet:` around its wait for the editing group; `PushUpdate`,
`DispatchRun`, `Uncount`, `LeaveGroup` are the four shared steps of the block on
the editing queue; `Running` on the stack is the `runBlocks` loop, which a wait
enters a second time on top of a running block; `DeliverAtOnce`,
`DeliverAnimated`, `DeliverDeferred`, `ConsumeUpdate` and `AnimationsEnd` are what a
table or collection view may do with an update. `EndWait` is
`_scheduleBlockOnMainSerialQueue:`. A map is named by the order of its making, so that
"newer" is `>`; the elements it brought in carry the traits they were made
with. `onDidFinishProcessingUpdates:` reads the queue's length (`StartCheck`) and
then the count (`FinishCheck`), two steps because the editing thread may come
between; a retry goes through the editing queue and the main queue.

Constants choose the variant: `Optimized` (the experiment that skips the wait of
line 571; the model without the wait has every behaviour of the model with it,
so the safety run uses it), `ViewDefers`, `ReplacesMaps` (relayout and clear),
`SubmitsBetween`.

### AsyncDisplay

The nodes of one cell. `content[n]` is the version a display started now would
draw, `shown[n]` the version in the layer, 0 for none. An operation carries
`outdated` in place of the comparison of two `_displaySentinel` values, which is
the same thing as long as the counter does not wrap. `SetNeedsDisplay` is the
layer's method (cancel, then mark unless suspended); `Schedule` is
`__setNeedsDisplay`; `DisplayIfNeeded` is CoreAnimation's flag with
`_ASDisplayLayer display`. `SetDisplaySuspended`, `EnterDisplay`, `ExitDisplay` and
`ClearContents` are the interface state's part. `ChangeOffMain`, `MarkPending`,
`ScheduleOffMain` and `Flush` are the way of a call from another thread.
Transactions appear only as "open, committed, drawn, completed".

Three facts of the code shape its properties:

* `displayImmediately` leaves the sentinel alone (`ASDisplayNode+AsyncDisplay.mm`
  461-472), so an asynchronous display that was under way sets its older
  contents afterwards. `overtaken` holds the nodes this happened to, and the
  properties except them.
* The render queue may meet a node before its pending state is flushed; the node
  then stays marked and is displayed with the next commit that includes it.
* `_pendingDisplayNodes` is filled when display resumes, before displays start.

### RunLoopQueue

`ASRunLoopQueue` with the run loop it observes. `entries` is the pointer array;
an entry of a weak queue becomes `Null` when its object dies (`Release`), and the
array is compacted only by a batch that has put a NULL in (`Remaining`, `Compact`).
`Enqueue` is the critical section of `enqueue:`; `TakeBatch`, `Consume` and
`FinishBatch` are `processQueue` before, during and after it calls the consumer
without the lock. The run loop is in a turn, in the observer, or waits; `wake`
stands for the signalled source and the message in the wake-up port. `owed` and
`older` are kept for the properties only. The queue has the render queue, the
deallocation queue and clients' queues as instances (`Options`).

### LayoutTransition

The loaded nodes of a tree, and the transitions of its root. A layout carries
`valid` (its version is not below `_layoutVersion`) and `current` (it was measured
after the last change), whose difference the properties are about. `Change` is
`invalidateCalculatedLayout` on any thread; `ReuseLayout`, `ApplyLayout` and
`AskFromAbove` with `ApplyAskedLayout` are the ways through
`_u_measureNodeWithBoundsIfNecessary:`, the last of which lets go its lock. A
transition is `StartTransition` and `MarkSubnodes` on main, `BeginMeasuring` and
`Measure` on a worker or on main, `BeginCommit`, `CommitLayout`,
`CompleteSubnodes` and `Finish` in the block on main; `CancelLayoutTransition`
exchanges the id and `UnmarkSubnodes` tells the subnodes. `Insert` and `Remove` are
what `_setSupernode:` does to the hierarchy state. `Cancellers` are the threads
that cancel, `CompletionCalls` what a completion block does.

### NetworkImage

One network image node. Every step is a critical section of its lock: `SetURL`,
`SetImage` and `ClearImage` by clients, `EnterPreload` and `ExitPreload` as
`applyPendingInterfaceState:` sets the state before it calls the node,
`LazilyLoadImageIfNecessary` and `Load`, which drop the lock between them, the
lookup in the cache, `BeginDownload` and `StoreIdentifier` with the download under
way in between, and the answers. A request is a block or lookup under way, with
the URL it has read; `currentLookup` stands for `_cacheSentinel`: the request that
took the value of now. `NamesDownloads` says whether the downloader gives its
identifiers back, as `ASImageProtocols.h` 71 describes. `image.by` tells how the image
came and `image.url` whose it is, none for one that `setURL:resetToDefault:` has kept
from the URL before.

Only the block that finishes a lookup or a download looks at the preload range
(`Accept`). A display on the spot (`FetchSynchronously`) and a part of an image
(`HandleProgressImage`) set the image in any range. Only in a node that a range
controller manages (`RangeManaged`) does leaving the range call `didExitPreloadState`,
which looks at `imageWasSetExternally` (`DidExitPreloadState`) and clears in a second
critical section (`ClearOnExit`). A request reads the URL when it begins, so that
requests keep one only while the code does: from the lookup to its answer, and from the
start of a download to the storing of its identifier.

### RangeController

The range controller of a collection view with its cell nodes. `map` is
`visibleMap`, a sequence whose positions stand for index paths; `shown` counts the
cells of each element; `wanted` remembers what the last update decided.
`UpdateAll` and `UpdateVisibleOnly` are `_updateVisibleNodeIndexPaths` with and
without cells on display: the elements in the display and preload ranges are any
sets, since the layout decides. `SetState` and `Apply` are the interface state of a
node, `LeaveVisible` is `_setVisibleNodes:`. `coalesces` chooses between states that
are applied when they are set and `ASCATransactionQueue` (`ProcessTransactions`).
`Deallocate` happens when nothing refers to a node. In `BatchUpdate` the view takes the
map in the step that makes the ranges invalid, and then may or may not update them: it
does not if no update is due, nor when it puts the change set off
(`ASCollectionView.mm` 2226-2230). What comes between the two in a view that defers
its update block is not modelled.

`TypeOK`, where a module has it, says what values the state takes; the proofs of the
lock, the queue, transactions and the data controller are built on it.

## Runs

Every run needs between a few seconds and three minutes.

| Run | Configuration | States | Checks |
|---|---|---|---|
| `recursive_unfair_lock` | 3 threads, depth 2 | 216 | no self-deadlock, refinement of RecursiveLock |
| `queue` | 2 queues, 2 priorities, 3 operations, 3 workers (2 per queue), 1 group, 1 notification | 126 276 | no stranded operation, indexes agree, groups outlive users, FIFO, refinement of DispatchGroup |
| `queue_live` | 1 queue, 2 operations, 2 groups, 2 workers | 21 656 | waits return, groups are deleted |
| `transactions` | 2 layers, 2 transactions, 2 operations, 3 methods deep, fair | 102 276 | callbacks after operations, once, with values, join open; callbacks happen, waits end |
| `updates` | 2 change sets, 1 callback, 1 synchronization block, 3 maps, 1 trait change, 3 methods deep | 1 586 681 | waits, relayout, traits, refinement of ElementMaps |
| `updates_live` | 2 change sets, 1 callback, a view that defers, 2 deep | 24 534 | completion after display, updates complete, callbacks run |
| `display` | a cell with two drawing nodes, 4 calls | 682 142 | not forgotten, cleared, pending, no regress, ensured |
| `display_views` | the view-backed node is changed off main | violated | not forgotten |
| `run_loop_queue` | 3 objects, 4 calls of `enqueue:`, batches of 1 and 2, every option | 117 373 | announced, drained, consumed |
| `layout_transition` | 4 nodes, 2 of them laid out, 2 that move, 2 transitions, fair | 131 784 | pending, valid, last wins, end |
| `network_image` | 2 URLs, 2 requests and 2 downloads at a time, with and without a cache | 3 086 176 | own image, cleared, under way |
| `ranges` | 2 nodes, both modes (1 node when coalescing), 1 cell per element | 166 098 | not visible when deallocated, exact, no thrash |

Symmetry is used for safety only (sets of operations, workers, groups, updates,
URLs), never with liveness.

### Bounds, and why they are enough

* *Lock*: three threads give a holder, a thread that releases and one that
  reads in between; depth 2 tells a nested unlock from the last.
* *Queue* (`MaxThreads` 2, `MaxEnters` 1): two threads on one queue while the
  other queue has one; three operations allow two of one priority with one of the other
  before, between or after. A dispatch queue's threads only interact through
  the mutex, so a third thread per queue adds interleavings of equal steps; the
  proofs cover it.
* *Transactions* (`MaxDepth` 3, `MaxOps` 2): a wait inside a callback inside a
  wait; one transaction of a layer committed while the next is open; a layer in
  the midst of a commit while the other gets a new transaction. Transaction
  objects are reused, so sequences are not bounded.
* *Data controller* (`MaxDepth` 3, `MaxMaps` 3, `MaxTraits` 1): an update submitted
  from the completion of another, inside a wait; every hazard found needs two
  updates or one update and a relayout. Each update is submitted at most once,
  so histories are finite.
* *Display* (`MaxCalls` 4): a change, a display under way, leaving and entering
  the range is the longest hazard met; run loop turns, workers and flushes are
  not bounded.
* *Run loop queue* (`MaxEnqueues` 4): a batch of two with an entry left over and one
  more enqueued while it is consumed; the second entry of one object; objects that
  die in the array, in the batch and outside.
* *Layout transitions* (`MaxTransitions` 2): one that is superseded or cancelled at
  any of its steps and its successor; a pair of nodes inserted and removed at any
  depth. Only the root and one subnode have layouts (`LaidOut`), which is a
  supernode and the one that asks it.
* *Network image* (`MaxRequests`, `MaxDownloads` 2): the request of now and one of
  before at any of their steps. Two URLs are the one of now and another; they may be
  set for ever. The node is a managed one; TLC was also run with `RangeManaged = FALSE`
  (2 524 281 states), and the theorems are about both.
* *Ranges* (`MaxCells`, `MaxBlocks` 1): two nodes exchange their paths, replace each
  other, or leave one of the other's; with coalesced states, whose property is about
  a single node, one node (`Coalesced`). Events are not bounded.

### What the runs show

For each property `PROJECT.json` names a faulty variant of one definition
("Faulty variant" in the modules): the bug a change of the code could introduce and
the property that would notice.

`CHECK_DEADLOCK FALSE` stands in the configurations of display, run loop queue and
layout transitions, where calls, objects or transitions are used up in the end and
everything is at rest. Deadlock is checked everywhere else.

## Fairness

* *Operation queue.* Weak fairness of each worker's steps: GCD runs the blocks
  it was given and the mutex is not held for ever; of `ContinueWait` (a signalled
  waiter gets the mutex) and of the matching `leave()` of each `enter()`. Under
  weak fairness of a worker with several priorities, an operation of low priority
  may be overtaken for ever by others when only threads that respect priority
  remain; the liveness run therefore has a single priority.
* *Transactions.* Weak fairness of workers and of main's own steps; strong
  fairness of what the run loop serves (`RunLoopCommit`, `RunNotification`) and of
  the return of client callbacks: these are disabled while main is inside other
  methods and enabled again and again, and the run loop does come back to them.
* *Data controller.* The same for the editing queue and main; strong fairness of
  the return of callbacks, of the main queue's blocks, of the view consuming
  updates and ending animations, all of which happen between other things main does.

* *Run loop queue.* Weak fairness of the run loop's own steps: it runs as long as
  it has entries or a wake-up. That anything else turns it (`OtherWork`) is not
  assumed, which is the point of the source.
* *Layout transitions.* Weak fairness of what a thread has begun (`Continue`,
  `UnmarkSubnodes`); strong fairness of the transition's block, which needs the lock
  of the root, and of its block on main, which has to come between layout passes:
  the run loop serves its queue in order.

No fairness is assumed of clients' calls, of downloaders or of caches.

## Where the code and its documentation disagree

* `display_views`: `setNeedsDisplay` is "safe to call from a background thread"
  (`ASDisplayNode.h` 614), but applying the pending state to a view leaves it out
  (`Private/_ASPendingState.mm` 1057-1059, commented out).

TLC finds each of the following with other constants than those of the runs:

* `_ASAsyncTransaction.mm` 409-411 says that the state Complete blocks extraneous
  calls of `completeTransaction`. It is set after the operations' completion blocks;
  one that waits for its own layer (`recursivelyEnsureDisplaySynchronously:` from a
  completion block) is called again, and so is the transaction's own block.
  (`AsyncTransaction`, `WaitsForOwn = TRUE`, one layer, `Spec`: `CallbacksRunOnce`.)
* `ASDataController.mm` 901-902 assumes that both maps are the same when a relayout
  runs on the main serial queue. A completion handler that runs before it may have
  submitted an update. (`DataController` with two updates, `ReplacesMaps` and
  `SubmitsBetween`, `MaxMaps = 4`, the other choices `FALSE`: `RelayoutFindsMapsEqual`.)
* `isProcessingUpdates` reads two places one after the other; the editing thread
  moves the update from the second to the first in between, and the answer NO comes
  with an update pending (`ASCollectionNode.h` 293). (`DataController` with one
  update and one callback, `SubmitsBetween`, depth 2: `NotProcessingMeansDone`.)
* `cancelLayoutTransition` "can be called on any thread" (`ASDisplayNode.h` 940). Off
  main, its second half may come after main has started the next transition, whose
  subnodes it takes out of LayoutPending, or before main has marked the last of
  them, which then stay in it; and the id is looked at without the lock whose taking
  `ASDisplayNode+Layout.mm` 708-709 says makes sure that the transition is not
  invalidated. (`LayoutTransition`, `Cancellers = {"main", "background"}`:
  `NoStuckPending`, `LastTransitionWins`.)
* A transition started in the completion block of another is ended by the other's
  last statement (`ASDisplayNode+Layout.mm` 756), which clears whatever id there is:
  its measurement is dropped and its subnodes stay in LayoutPending.
  (`CompletionCalls = {"nothing", "transition"}`: `TransitionsEnd`.)
* `ASBasicImageDownloader` passes no identifier to its completion blocks where
  `ASImageProtocols.h` 71 describes one; then the node takes the image of a URL it
  no longer has. (`NetworkImage`, `NamesDownloads = FALSE`: `DownloadedImageIsOwn`.)
* An image that the client sets may be overwritten by an answer that was on its way
  (`ASNetworkImageNode.h` 58), or removed by an exit from the preload range that had
  looked for one before (`ASNetworkImageNode.mm` 444-449: "we don't want to remove it").
  (`NetworkImage`: `ClientImagesStay`.)
* The cancellation at the start of `setURL:` returns before it advances the sentinel if
  no download has begun (`ASNetworkImageNode.mm` 602), and a hit in the cache has no
  identifier that could be compared (803). The lookup of the URL of before, if it
  answers first, sets its image and `imageLoaded`; the new URL is not loaded, where
  `ASNetworkImageNode.h` 77-79 promises "the final image after the new image data was
  downloaded and processed". (`NetworkImage`, with a cache: `ImageIsUnderWay`
  without `~CacheMisleads`.)
* A download that answers before its identifier is stored is dropped (803), and the
  identifier stored after it (687) keeps the node from loading again until it is
  cancelled. (`NetworkImage`: `ImageIsUnderWay` without `~AnswerMissed`.)
* `asyncdisplaykit_cancelAsyncTransactions` commits the current transaction before the
  layer gives it up (`..Container.mm` 39-41), where the group's commit "must nil out
  the transaction we're committing first" (`..Group.mm` 78-79). The commit of an empty
  one calls the hook; a hook that displays in the layer adds to the committed
  transaction, against the assertion of `addOperationWithBlock:`
  (`_ASAsyncTransaction.mm` 357). (`AsyncTransaction`, `HooksDisplayAll = TRUE`:
  `OperationsJoinOpen`.)
* `waitUntilComplete` commits the main group after the transaction's operations have
  ended; a hook called by that commit which adds to the transaction, still open, makes
  the wait complete it with an operation that has not run.
  (`AsyncTransaction`, `HooksDisplayAll = TRUE`: `CallbacksFollowOperations`,
  `UncanceledHaveValues`.)
* With states that coalesce, a node is deallocated visible, against
  `ASRangeController.mm` 189-192: the visible state that a delayed decision restores
  is not known to the range controller any more. (`RangeController`:
  `NotVisibleWhenDeallocated` without its premise.)

Noted while reading, and not the subject of a run:

* `isSynchronized` answers YES from the client's completion handler on although
  another update may be on its way (`ASDataController.mm` 549 against
  `ASCollectionNode+Beta.h` 53).
* `isProcessingUpdates` may answer YES inside a completion handler that a wait runs,
  with the wait's own block still queued (496 against `ASCollectionNode.h` 297).
* A synchronization block that registers another while an update is pending
  mutates the array that is being enumerated (552-555).
* The first thread of a queue takes operations in order; when it ends while others
  go on, the queue has no such thread until all have ended (`_ASAsyncTransaction.mm` 236).
* The consumer of a weak run loop queue whose last objects die before their batch is
  not told that the queue is drained (`ASDisplayNode.mm` 1303-1313 waits for that).
* A change between the unlock and the relock of a layout pass is missed
  (`ASDisplayNode+Layout.mm` 442-459; `missed` in the model). A layout pass that is
  skipped during a transition is not made up for if the frames stay the same.
* `ASLayoutElementContextDefaultTransitionID` is 1, the id of the first transition.
* The animated default transition never removes its subnodes:
  `ASDisplayNode+Layout.mm` 902-904 is commented out.
* A URL that is set to nil before a request begins is downloaded
  (`ASNetworkImageNode.mm` 632). Images fetched for a display on the spot and parts of
  images may be set, and then stay, outside the preload range (397, 494).
* The contexts of `ASBasicImageDownloader` are shared per URL, so that the
  cancellation of one node's download ends that of another.
* Nodes that leave all ranges in the update in which they stop being visible keep,
  with coalesced states, their preload and display states: `exitInterfaceState:`
  starts from the applied state.
* A view that defers its update block lets an update of the ranges make them valid
  with the old map (`ASRangeController.mm` 515).
* `ASTableLayoutController.mm` takes the answer of `rowsInRect:` for index paths.

## Proofs

TLAPS proves the theorems for every value of the constants that satisfies the
named assumptions.

### LockAndQueueProofs

The proofs of the two smallest components share a module. That of the lock
assumes that `NoThread` is not a thread. The inductive invariant `IInv`
adds to the type invariant, for each thread, where it stands (`Inside`: from the
acquisition of the system lock to its release) and that the owner and the count
are exact except for the moments between two statements. Mutual exclusion alone
is not inductive: a state in which the owner is stale but not oneself would
break it. From `IInv` follow `MutualExclusionHolds`, `LockIsSafe` (assertions, and
no thread blocks on itself) and `Refinement` (every step is a step of
`RecursiveLock` or a stutter under the mapping).

The specification of the run loop queue has names of its own (`QueueSpec`, `QueueInit`,
`QueueNext`), so that both can be extended. `QueueInv` joins to `WorkIsAnnounced` what
a batch knows of itself (`QuietBatch`): one that found the queue drained, and will not
signal, has either got no entry since, or got a first one, which has signalled. The
property alone is not inductive, since nothing would tie the flag that a batch
carries to what is enqueued while it is consumed. `QueueInvariance` and
`WorkIsAlwaysAnnounced` follow.

### AsyncTransactionQueueProofs

Assumptions: `QueueAssumption` (operations and workers are finite sets, the
null values are not members, more than one thread per queue) and
`PriorityAssumption` (of the priorities in use one is the highest).

    IInv     == TypeOK /\ WorkInv /\ GroupInv /\ WaitInv
    WorkInv  == WorkerInv /\ QueueInv /\ QueueConsistency /\ ThreadInv

* `WorkerInv`: a worker has a queue while it lives and an operation of its own
  from the take to the leave. `QueueInv`: an operation is in one queue once, or
  with one worker. Without them an operation could leave its group twice and
  the counters would drift.
* `ThreadInv`: the thread count is the number of workers, a queue with operations
  has one, one at most ignores priorities. `NoStrandedOperation` alone is not
  inductive: a wrong count would make `schedule` start no thread.
* `GroupInv`: the counter is the number of outstanding operations and entries; a
  deleted group has none. `WaitInv`: main waits for a group that is kept.

The proof has a lemma per action. The work is in `QueueConsistency`: that each
priority's list is the selection of that priority from the queue, in order, is
preserved when an operation is taken from the middle (a thread that respects
priority) or from the front, and when one is appended; the lemmas on
`IsSelection` say so once for sequences in general, and `NextIsFirstOfItsPriority`
joins the two ways of taking. `Invariance` then gives
`NothingIsStranded`, `QueuesAreConsistent`, `CountersAreExact`, `GroupsAreSafe`,
`OneThreadAtMost`, and `FifoHolds` as an action property.

`QueueImplementsDispatchGroup` is the refinement. The members of an abstract group are its
operations and its callers of `enter()`, each under a name of its own
(`CallerAssumption`: no operation has such a name). `CounterTells` joins the counter to them: it
is 0 when there is none, and 1 when the one that leaves is the last, so that the
notifications become due at that step. `MemberInv` adds that only a busy group has
notifications to send, without which making a group again would take some away.
Scheduling and `enter()` are the abstract `Enter`, a worker that leaves and `leave()`
the abstract `Leave`; taking, running, releasing and waking up are stutters.

### AsyncTransactionProofs

Assumptions: `AsyncTransactionAssumption`; no completion block waits for its own layer
(`~WaitsForOwn`); and no hook displays in the layer whose cancellation called it, or
in the transaction whose wait called it (`~HooksDisplayAll`). What happens otherwise
is in the section above.

    IInv == TypeOK /\ GroupTypeOK /\ StackOK /\ FramesOK
            /\ CurrentOK /\ LayersOK /\ OwnersOK /\ GroupsOK /\ ValuesOK /\ CallsOK

Main is re-entered, so most of what the code relies on is known only to a method
that is still on main's stack.

* `StackOK`: which stacks there are (`Shape`: below a method there are completion
  blocks only, but for a hook in a commit and a commit in a wait that is over), and
  that main is inside one method of a transaction at most (`Unique`), which is what
  `WaitsForOwn` would break.
* `FramesOK`: what each method goes by when it is resumed, for instance that a
  transaction that is completing has no operation outstanding.
* `CurrentOK`, `LayersOK`: a layer's current transaction is open and its container
  registered, or being committed; the transactions of a layer are those not completed.
* `OwnersOK`, `GroupsOK`: an operation has one transaction, outstanding operations have
  a block, the notification of a group is due when none is outstanding.
* `ValuesOK`, `CallsOK`: only blocks of canceled transactions are skipped; a completion
  block that was called is released, or main is inside it.

`CallbacksAlwaysFollowOperations`, `CallbacksAlwaysRunOnce` and
`UncanceledAlwaysHaveValues` follow, and `OperationsAlwaysJoinOpen` as an action
property. None of the four properties is inductive: all that makes the second call of
a completion block impossible is that the frame which runs it is the only one.

### DataControllerProofs

Assumptions: `FlagsAssumption`, `BoundsAssumption`. The invariant is built in four layers, each
under the hypotheses it needs.

* `PipelineOK`, for every client, view and experiment: an update is in one place (held
  by the view, in a block of the main serial queue, in the editing queue) and there
  once, its status says which (`TokensOK`); the count of the editing queue is the
  number of updates in it that were counted (`EditingOK`, by the cardinality lemmas of
  the library); who can be below whom on the stack (`Below`).
  `CompletionAlwaysFollowsDeploy` needs no more.
* `MapsOK` adds `OrderOK` (along the way, maps are in order, and every map between the
  visible and the pending one is that of an update on its way) and `ReplaceOK` (behind
  a block that replaces both maps there is no update, since none can have been
  submitted, laid out or pushed in the meantime). `RefinesElementMaps`: every step is
  one of `ElementMaps` or a stutter, so maps are displayed in order and none is
  skipped. `RelayoutAlwaysFindsMapsEqual`: the assertion in `relayoutAllNodes`.
* `WaitsOK`: what a wait has to see cannot be passed over
  (`Reached`: displayed, or in a block of the queue that main runs empty before it
  returns); from it `WaitsAlwaysShowUpdates`, for waits nested to any depth.
* `TraitsOK`: the elements of each map have the traits, or main will hear of the
  change, waits to push its block, or has pushed it behind that map (`Told`); from it
  `TraitsAlwaysReachElements`.

The second layer assumes `Replacer`: a client that replaces both maps neither
submits an update while a relayout or a clear waits nor has a view that defers its
updates; the section
above has the behaviour otherwise. An update's order alone needs no hypothesis, but
the replacing blocks write the map that the updates write. The third and the fourth
also assume that the view does not defer: one that does shows the map after the wait
has returned, which is what it is asked to do.

### AsyncDisplayProofs

Assumption: `DisplayAssumption`, with a finite set of nodes. All follows from there being
one display at most of a node that the sentinel has not outdated (`OneDisplay`), which
`SetNeedsDisplay` and the mark of the layer keep. `IInv` adds

* `RangeOK`: while display is suspended none counts, so that a clear in a later turn has
  nothing left to race with;
* `VersionsOK`: shown is not newer than drawn, and drawn not newer than the node is now;
* `PendingOK`: whoever is in `pendingDisplay` is a node whose display is under way, or is
  owed (marked, or empty when it was tried), or was under way when display was suspended;
  and whose display is under way is in it.

`AlwaysClearedOutsideRange`, `PendingIsAlwaysExact` and `ContentsGoForward` follow without a
hypothesis. The numbers of transactions are part of the types: that some number up to one
more than the operations is free is a pigeonhole argument, and that there is a least
one rests on the order of the subsets of a finite set.

`ChangesAreNeverForgotten` and `EnsuredIsAlwaysShown` need what a change leads to
(`ChangesOK`): a display older than its node is followed by another (`LiveIsNewest`),
which is marked, in the pending state, or in the hands of a thread that has not
marked it yet (`WillStart`); and what a blocking call has asked for is shown or being drawn (`AskedOK`).
They assume that other threads change layer-backed nodes only (`LayersOffMain`); the
run `display_views` is what happens otherwise. All parts were checked by TLC with the
instance of `display` first.

### LayoutTransitionProofs

Three invariants, each of what its property needs.

* `IInv` has no tree: `transitionID` is `lastID` or none, every cancelled transition was
  started and none of them has the id, and main commits only the transition that has
  it. `LastTransitionAlwaysWins` assumes that only main cancels, which is what keeps
  the look at the id and the commit together; the section above says what happens
  otherwise.
* `TransitionsOK /\ LayoutsOK`: a layout on its way (in a transition, in the layout pass
  of main) counts as valid only when it was measured after the last change, as those
  do that a node has. `ValidLayoutsAreAlwaysCurrent` has no hypothesis.
* `PendingOK` adds the tree: `supernode` is a forest (`IsForest`: paths upwards have no
  cycle and contain those of the nodes on them), a node in LayoutPending is below the
  root, and while nodes are being marked the transition is that of now. That a path exists and
  how it is unfolded (`PathGoesUp`) is proved of the recursive function from the sets
  closed under going up, so that what inserting or removing a node does to paths
  needs no induction. `PendingIsNeverStuck` assumes that main alone cancels and that
  no completion block starts a transition; each of the two is a behaviour of the
  section above.

### NetworkImageProofs

`DownloadedImageIsAlwaysOwn` assumes `NamesDownloads`. The invariant adds to the
property that the download whose identifier is stored has the URL of now
(`StoredIsOwn`), and that one that was started and not stored yet has the URL its
request has read, and an identifier of its own (`StartedIsOwn`); `LoadTypeOK`
and `URLsOK` are the types.

`AlwaysClearedOutsidePreload` has no hypothesis. The property speaks of a managed node
and of what the finished block takes, the only answer that looks at the range. It is
inductive once one knows that a node on its way out of the range is out of it
(`ExitIsOut`): main can come back only when the clearing is done.

`ImageIsAlwaysUnderWay` assumes `NamesDownloads`, and the property excepts the two
ways in which the node loses its image (`CacheMisleads`, `AnswerMissed`; see the
section above). `SightInv` adds that only the cache sets an image of another URL as
loaded (`LoadedIsOwn`), and that somebody still looks for the image: main, a
request, a stored identifier, or a thread that is to ask for it (`InSight`). The
property alone is not inductive: it says nothing while main is on its way, nor while
a lookup for a URL of before is out, and both end in states of which it speaks.

### RangeControllerProofs

With states applied at once, `IInv` says that what was set is applied
(`AppliedInv`), that every visible node is among `_visibleNodes` (`TrackedInv`) and
that while the ranges are valid nothing outside the previous paths is in a range
(`ExactInv`), without which an update that visits only these paths would miss nodes.
`NeverVisibleWhenDeallocated` and `RangesAreExact` follow for any nodes and maps.

`VisibilityNeverThrashes` is about coalesced states too. `RestoredInv` says why a node
that is wanted visible does not lose the state to the queue: what is pending for it is
visible (`StaysVisible`), or it has left the hierarchy and what is remembered for its return is
(`Remembers`). An update of the ranges sets each node that it wants visible, since that
lies in a range and is visited.

### What stays with TLC

* Liveness under fairness (`queue_live`, `updates_live`, and the temporal properties of
  `transactions`, `run_loop_queue` and `layout_transition`) and whatever rests on
  `ENABLED`.
* What needs induction over data: `DrainedMeansDone`, where a batch is selected from the
  queue by a recursive function.
* The properties of the data controller, of transactions, of layout transitions and of
  display outside the hypotheses named above: the runs check `CompletionFollowsDeploy` and
  liveness with a view that defers.

## What is not modelled

* *Pure geometry and drawing*: layout specs, Yoga, text, images, collection
  layouts. Floating-point values without a protocol.
* *Wrappers of platform classes*: cells, controls, pagers, video, map, view
  controllers, the forwarding of delegates and data sources.
* *Memory management*: ARC, weak containers, main-thread deallocation.
* *Exceptions*, such as the one for an invalid update.
* *Change sets and index maps*: their arithmetic is sequential and pure; the models
  need only which kind of change set it is, and take any next map.
* *Within modelled parts*: rasterized subtrees, nodes outside range-managed
  cells and placeholders (display); the positions of elements in maps, node
  allocation and measuring (data controller); that `_displaySentinel` wraps
  after 2^32 displays; sizes, layout passes of unloaded nodes off main, and
  transitions of subnodes (layout); local files, animated images, the delegate
  and the clearing that a client may ask for,
  `clearPreloadedData` (network image); range modes and their tuning (the display range is taken to lie
  in the preload range), nodes not allocated yet, subnodes of a cell, nested
  collections, memory warnings and the background (ranges).
* *Batch fetching*, where one state serves all batches (its hazard in `PROJECT.json`).
* *The memory model*: reads and writes of atomics and of fields under a lock are
  single steps in a global order. `state` of a transaction is an atomic property.

External behaviour is modelled from its use: GCD queues (serial ones in order,
concurrent ones in any order), the run loop, the commit of CoreAnimation, the
collection view.

## Plan

What could come next, in this order:

1. `IntegerMaps` and `ChangeSets`: the index arithmetic against a reference
   definition over all small inputs; a change set applied to a map gives the new data.
2. `BatchFetching`, and the contexts that image downloads share, with two nodes.

Compositions: `AsyncTransaction` is on `AsyncTransactionQueue` through
`DispatchGroup`. `RangeController` could take the place of the free `EnterDisplay`
and `ExitDisplay` of `AsyncDisplay`, and `AsyncTransaction` that of its transactions;
the products are beyond what TLC can enumerate with the present bounds.
