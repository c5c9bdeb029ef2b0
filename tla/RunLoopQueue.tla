---------------------------- MODULE RunLoopQueue ----------------------------
(***************************************************************************)
(* ASRunLoopQueue: objects that any thread enqueues and that one run loop  *)
(* hands to a consumer, a batch in each turn.                              *)
(*                                                                         *)
(* The queue is an observer of kCFRunLoopBeforeWaiting: the run loop calls *)
(* it each time it is about to sleep.  A source of the run loop is there   *)
(* only to be signalled, with a wake-up, so that the loop turns once more. *)
(* The run loop itself is CoreFoundation's: here it is in a turn, in the   *)
(* observer, or waiting, and wake says that its wake-up port has a         *)
(* message, which ends the wait.                                           *)
(*                                                                         *)
(* With weak references an entry becomes NULL when its object dies; the    *)
(* entry stays in the array, and counts, until a batch compacts it.        *)
(***************************************************************************)
EXTENDS Naturals, Sequences, FiniteSets

CONSTANTS Objects,
          Null,          \* a NULL entry
          BatchSizes,    \* values batchSize may have
          MaxEnqueues    \* bound: calls of enqueue:

RunLoopQueueAssumption ==
  /\ Null \notin Objects
  /\ BatchSizes \subseteq Nat \ {0}
  /\ MaxEnqueues \in Nat
ASSUME RunLoopQueueAssumption

VARIABLES
  options,     \* what the queue was made with
  alive,       \* objects with a reference outside the queue
  entries,     \* _internalQueue
  itemsToProcess,
  isQueueDrained,
  runLoop,     \* "turn", "observer" or "waiting"
  wake,        \* was the source signalled and the run loop woken up
  owed,        \* enqueued, and not handed to the consumer since
  older,       \* those of them that were enqueued before the batch was taken
  enqueues

loopVars == <<itemsToProcess, isQueueDrained, runLoop>>
queueVars == <<options, alive, entries, loopVars, wake, owed, older, enqueues>>

Options == [retainsObjects: BOOLEAN, hasConsumer: BOOLEAN,
            batchSize: BatchSizes, ensureExclusiveMembership: BOOLEAN]

QueueTypeOK ==
  /\ options \in Options
  /\ alive \subseteq Objects /\ owed \subseteq Objects /\ older \subseteq Objects
  /\ entries \in Seq(Objects \cup {Null})
  /\ itemsToProcess \in Seq(Objects)
  /\ isQueueDrained \in BOOLEAN /\ wake \in BOOLEAN
  /\ runLoop \in {"turn", "observer", "waiting"}
  /\ enqueues \in 0..MaxEnqueues

QueueInit ==
  /\ options \in Options
  /\ alive = Objects
  /\ entries = <<>> /\ itemsToProcess = <<>>
  /\ isQueueDrained = FALSE
  /\ runLoop = "turn"
  /\ wake = FALSE
  /\ owed = {} /\ older = {}
  /\ enqueues = 0

------------------------------------------------------------------------------
(* The array of pointers. *)

Contains(s, o) == \E i \in DOMAIN s : s[i] = o

\* -compact removes the NULL entries, but only of an array that was marked by
\* replacing or adding a NULL, which the death of a weak object does not do.
Compact(s, marked) ==
  IF marked THEN SelectSeq(s, LAMBDA o : o # Null) ELSE s

\* The positions of the next batch: the first non-NULL ones, up to batchSize.
Batch ==
  {i \in DOMAIN entries :
     /\ entries[i] # Null
     /\ Cardinality({j \in 1..i : entries[j] # Null}) <= options.batchSize}

BatchItems ==
  SelectSeq([i \in DOMAIN entries |-> IF i \in Batch THEN entries[i] ELSE Null],
            LAMBDA o : o # Null)

\* Faulty variant: no NULL is added, so that an array of dead objects is not
\* compacted.
FaultyRemaining ==
  LET replaced == [i \in DOMAIN entries |-> IF i \in Batch THEN Null ELSE entries[i]]
  IN  Compact(replaced, Batch # {})

\* What is left once the batch is replaced by NULL.  If there was nothing but
\* NULL, one more is added, to have the array compacted all the same.
Remaining ==
  LET replaced == [i \in DOMAIN entries |-> IF i \in Batch THEN Null ELSE entries[i]]
  IN  IF Batch = {} THEN Compact(Append(replaced, Null), TRUE)
      ELSE Compact(replaced, TRUE)

------------------------------------------------------------------------------
(* Clients, on any thread. *)

\* Faulty variant: the signal is left to the batch in progress, whatever it
\* has found.
FaultyEnqueue(o) ==
  /\ o \in alive /\ enqueues < MaxEnqueues
  /\ enqueues' = enqueues + 1
  /\ owed' = owed \cup {o}
  /\ IF options.ensureExclusiveMembership /\ Contains(entries, o)
     THEN UNCHANGED <<entries, wake>>
     ELSE /\ entries' = Append(entries, o)
          /\ wake' = (wake \/ (Len(entries') = 1 /\ runLoop # "observer"))
  /\ UNCHANGED <<options, alive, loopVars, older>>

\* enqueue:, under the lock.  The consumer may call it too.
Enqueue(o) ==
  /\ o \in alive /\ enqueues < MaxEnqueues
  /\ enqueues' = enqueues + 1
  /\ owed' = owed \cup {o}
  /\ IF options.ensureExclusiveMembership /\ Contains(entries, o)
     THEN UNCHANGED <<entries, wake>>
     ELSE /\ entries' = Append(entries, o)
          /\ wake' = (wake \/ Len(entries') = 1)
  /\ UNCHANGED <<options, alive, loopVars, older>>

\* The last reference outside the queue goes away.  If the queue does not
\* retain its objects, the entries become NULL, unless the object is in the
\* batch, which retains it.
Release(o) ==
  /\ o \in alive
  /\ alive' = alive \ {o}
  /\ IF options.retainsObjects \/ Contains(itemsToProcess, o)
     THEN UNCHANGED <<entries, owed, older>>
     ELSE /\ entries' = [i \in DOMAIN entries |->
                           IF entries[i] = o THEN Null ELSE entries[i]]
          /\ owed' = owed \ {o}
          /\ older' = older \ {o}
  /\ UNCHANGED <<options, loopVars, wake, enqueues>>

------------------------------------------------------------------------------
(* The run loop. *)

\* processQueue of an empty queue: the run loop goes to sleep.
FindNothing ==
  /\ runLoop = "turn" /\ entries = <<>>
  /\ runLoop' = "waiting"
  /\ UNCHANGED <<options, alive, entries, itemsToProcess, isQueueDrained, wake,
                 owed, older, enqueues>>

\* processQueue, under the lock.  Without a consumer the objects of the batch
\* are only released.
TakeBatch ==
  /\ runLoop = "turn" /\ entries # <<>>
  /\ itemsToProcess' = IF options.hasConsumer THEN BatchItems ELSE <<>>
  /\ entries' = Remaining
  /\ isQueueDrained' = (Remaining = <<>>)
  /\ owed' = IF options.hasConsumer THEN owed
             ELSE {o \in owed : Contains(Remaining, o)}
  /\ older' = owed'
  /\ runLoop' = "observer"
  /\ UNCHANGED <<options, alive, wake, enqueues>>

\* Faulty variant: told with every object of the last batch.
FaultyToldDrained == isQueueDrained

\* What the consumer is told with an object of the batch.
ToldDrained == isQueueDrained /\ Len(itemsToProcess) = 1

\* _queueConsumer is called with the next object of the batch, without the lock.
Consume ==
  /\ runLoop = "observer" /\ itemsToProcess # <<>>
  /\ LET o == Head(itemsToProcess) IN
       /\ owed' = IF Contains(entries, o) THEN owed ELSE owed \ {o}
       /\ older' = IF Contains(Tail(itemsToProcess), o) THEN older ELSE older \ {o}
  /\ itemsToProcess' = Tail(itemsToProcess)
  /\ UNCHANGED <<options, alive, entries, isQueueDrained, runLoop, wake, enqueues>>

\* The end of processQueue: if the batch left anything, one more turn.
FinishBatch ==
  /\ runLoop = "observer" /\ itemsToProcess = <<>>
  /\ wake' = (wake \/ ~isQueueDrained)
  /\ runLoop' = "waiting"
  /\ UNCHANGED <<options, alive, entries, itemsToProcess, isQueueDrained, owed,
                 older, enqueues>>

\* The run loop finds a message in its wake-up port.
WakeUp ==
  /\ runLoop = "waiting" /\ wake
  /\ wake' = FALSE
  /\ runLoop' = "turn"
  /\ UNCHANGED <<options, alive, entries, itemsToProcess, isQueueDrained, owed,
                 older, enqueues>>

\* It turns for anything else: a timer, an event, a block of the main queue.
OtherWork ==
  /\ runLoop = "waiting"
  /\ runLoop' = "turn"
  /\ UNCHANGED <<options, alive, entries, itemsToProcess, isQueueDrained, wake,
                 owed, older, enqueues>>

------------------------------------------------------------------------------
RunLoopStep == FindNothing \/ TakeBatch \/ Consume \/ FinishBatch \/ WakeUp

QueueNext ==
  \/ \E o \in Objects : Enqueue(o) \/ Release(o)
  \/ RunLoopStep
  \/ OtherWork

QueueSpec == QueueInit /\ [][QueueNext]_queueVars

\* The run loop runs as long as it has a reason to; nothing else is promised.
FairQueueSpec == QueueSpec /\ WF_queueVars(RunLoopStep)

------------------------------------------------------------------------------
(* Properties. *)

\* A run loop that sleeps, and that nothing has woken up, has an empty queue:
\* enqueue: signals for the first entry only, so that a batch must signal for
\* all it leaves, and entries whose objects died still count as entries.
WorkIsAnnounced == runLoop = "waiting" /\ ~wake => entries = <<>>

\* When the consumer is told that the queue is drained (the rendering engine
\* then announces that all scheduled nodes did display), everything that was
\* enqueued before the batch was handed out or is dead.
DrainedMeansDone == [][Consume /\ ToldDrained => older' = {}]_queueVars

\* Whatever is enqueued is handed to the consumer, or released if there is
\* none, unless it dies; and a queue of dead objects empties too.
EnqueuedIsConsumed ==
  /\ \A o \in Objects : o \in owed ~> o \notin owed
  /\ <>[](entries = <<>>)
=============================================================================
