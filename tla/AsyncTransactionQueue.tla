------------------------ MODULE AsyncTransactionQueue ------------------------
(***************************************************************************)
(* ASAsyncTransactionQueue: the operation queue behind every asynchronous  *)
(* display (_ASAsyncTransaction.mm, lines 64-316).  Operations of a group  *)
(* are scheduled on a dispatch queue with a priority; at most maxThreads   *)
(* blocks per dispatch queue drain them; a group counts its operations and *)
(* tells its owner, by notification or by waiting, when all have finished. *)
(*                                                                         *)
(* One mutex guards all of it.  Each critical section is one step, and     *)
(* what a worker does with the mutex unlocked (run the block) is another.  *)
(* The main thread creates groups, schedules, asks for notifications and   *)
(* waits; the condition variable of wait() may wake up spuriously.         *)
(*                                                                         *)
(* An operation, a group and a notification block are reused once they are *)
(* finished, so that the model runs for ever with finitely many states.    *)
(***************************************************************************)
EXTENDS Integers, Sequences, FiniteSets, SequencesExt

CONSTANTS Ops,         \* scheduled blocks
          Groups,      \* groups
          Queues,      \* dispatch queues
          Priorities,  \* operation priorities
          Workers,     \* blocks that drain a queue (threads of GCD)
          Blocks,      \* notification blocks
          NoOp, NoGroup, NoQueue,
          MaxThreads,  \* activeProcessorCount * 2
          MaxEnters    \* bound: unmatched enter() calls of one group

OpInfo == [queue : Queues, group : Groups, priority : Priorities]

ASSUME QueueAssumption ==
  /\ IsFiniteSet(Ops) /\ IsFiniteSet(Workers)
  /\ NoOp \notin Ops /\ NoOp \notin OpInfo
  /\ NoGroup \notin Groups /\ NoQueue \notin Queues
  /\ MaxThreads \in Nat /\ MaxThreads > 1
  /\ MaxEnters \in Nat

\* Priorities are integers, and of those in use one is the highest.
ASSUME PriorityAssumption ==
  /\ Priorities \subseteq Int
  /\ \A used \in SUBSET Priorities :
       used # {} => \E p \in used : \A r \in used : r <= p

\* The calls of enter(), which the abstract group counts among its members, are
\* named by the group and a number: no operation has such a name.
ASSUME CallerAssumption == \A o \in Ops : o \notin Groups \X Nat

VARIABLES
  operationQueue,     \* each queue's operations, in scheduling order
  priorityMap,        \* and the same operations by priority
  threadCount,        \* workers of each queue; 0: the queue has no entry
  wpc, wqueue, wop,   \* what each worker does, for which queue and operation
  respectPriority,    \* whether the worker takes the highest priority first
  op,                 \* queue, group and priority of each scheduled operation
  life,               \* whether each group exists
  pendingOperations,  \* each group's counter
  notifyList,         \* the blocks to dispatch when the counter reaches 0
  releaseCalled,      \* whether the owner gave the group up
  manual,             \* enter() calls of each group that await their leave()
  dispatched,         \* notification blocks handed to their dispatch queue
  waiting, asleep     \* the group main waits for; is it blocked in wait()

entryVars  == <<operationQueue, priorityMap, threadCount>>
workerVars == <<wpc, wqueue, wop, respectPriority>>
groupVars  == <<life, pendingOperations, notifyList, releaseCalled, manual>>
mainVars   == <<waiting, asleep>>
vars == <<entryVars, workerVars, op, groupVars, dispatched, mainVars>>

Init ==
  /\ operationQueue = [q \in Queues |-> <<>>]
  /\ priorityMap = [q \in Queues |-> [p \in Priorities |-> <<>>]]
  /\ threadCount = [q \in Queues |-> 0]
  /\ wpc = [w \in Workers |-> "none"]
  /\ wqueue = [w \in Workers |-> NoQueue]
  /\ wop = [w \in Workers |-> NoOp]
  /\ respectPriority = [w \in Workers |-> FALSE]
  /\ op = [o \in Ops |-> NoOp]
  /\ life = [g \in Groups |-> FALSE]
  /\ pendingOperations = [g \in Groups |-> 0]
  /\ notifyList = [g \in Groups |-> {}]
  /\ releaseCalled = [g \in Groups |-> FALSE]
  /\ manual = [g \in Groups |-> 0]
  /\ dispatched = {}
  /\ waiting = NoGroup
  /\ asleep = FALSE

\* Main is not blocked, and the group is one its owner may still use.
CanCall(g) == waiting = NoGroup /\ life[g] /\ ~releaseCalled[g]

------------------------------------------------------------------------------
(* Groups. *)

CreateGroup(g) ==
  /\ waiting = NoGroup /\ ~life[g] /\ manual[g] = 0
  /\ life' = [life EXCEPT ![g] = TRUE]
  /\ pendingOperations' = [pendingOperations EXCEPT ![g] = 0]
  /\ notifyList' = [notifyList EXCEPT ![g] = {}]
  /\ releaseCalled' = [releaseCalled EXCEPT ![g] = FALSE]
  /\ UNCHANGED <<entryVars, workerVars, op, manual, dispatched, mainVars>>

\* Faulty variant: release() deletes the group whatever is pending.
FaultyRelease(g) ==
  /\ life[g] /\ ~releaseCalled[g] /\ waiting # g
  /\ life' = [life EXCEPT ![g] = FALSE]
  /\ UNCHANGED <<entryVars, workerVars, op, pendingOperations, notifyList,
                 releaseCalled, manual, dispatched, mainVars>>

\* The owner's last reference goes away, on whatever thread; never during a
\* wait(), whose caller holds one.
Release(g) ==
  /\ life[g] /\ ~releaseCalled[g] /\ waiting # g
  /\ IF pendingOperations[g] = 0
       THEN life' = [life EXCEPT ![g] = FALSE] /\ UNCHANGED releaseCalled
       ELSE releaseCalled' = [releaseCalled EXCEPT ![g] = TRUE] /\ UNCHANGED life
  /\ UNCHANGED <<entryVars, workerVars, op, pendingOperations, notifyList,
                 manual, dispatched, mainVars>>

\* Faulty variant: a notification of an idle group is only listed.
FaultyNotify(b, g) ==
  /\ CanCall(g)
  /\ b \notin dispatched /\ \A h \in Groups : b \notin notifyList[h]
  /\ notifyList' = [notifyList EXCEPT ![g] = @ \cup {b}]
  /\ UNCHANGED <<entryVars, workerVars, op, life, pendingOperations, dispatched,
                 releaseCalled, manual, mainVars>>

Notify(b, g) ==
  /\ CanCall(g)
  /\ b \notin dispatched /\ \A h \in Groups : b \notin notifyList[h]
  /\ IF pendingOperations[g] = 0
       THEN dispatched' = dispatched \cup {b} /\ UNCHANGED notifyList
       ELSE notifyList' = [notifyList EXCEPT ![g] = @ \cup {b}] /\ UNCHANGED dispatched
  /\ UNCHANGED <<entryVars, workerVars, op, life, pendingOperations,
                 releaseCalled, manual, mainVars>>

Enter(g) ==
  /\ CanCall(g) /\ manual[g] < MaxEnters
  /\ manual' = [manual EXCEPT ![g] = @ + 1]
  /\ pendingOperations' = [pendingOperations EXCEPT ![g] = @ + 1]
  /\ UNCHANGED <<entryVars, workerVars, op, life, notifyList, releaseCalled,
                 dispatched, mainVars>>

\* Faulty variant: leave() does not signal the condition variable.
UnsignalledLeaveGroup(g) ==
  /\ pendingOperations' = [pendingOperations EXCEPT ![g] = @ - 1]
  /\ IF pendingOperations[g] = 1
       THEN /\ notifyList' = [notifyList EXCEPT ![g] = {}]
            /\ dispatched' = dispatched \cup notifyList[g]
            /\ life' = [life EXCEPT ![g] = ~releaseCalled[g]]
            /\ releaseCalled' = [releaseCalled EXCEPT ![g] = FALSE]
       ELSE UNCHANGED <<notifyList, dispatched, life, releaseCalled>>
  /\ UNCHANGED mainVars

\* Faulty variant: leave() forgets that the group was released.
LeakingLeaveGroup(g) ==
  /\ pendingOperations' = [pendingOperations EXCEPT ![g] = @ - 1]
  /\ IF pendingOperations[g] = 1
       THEN /\ notifyList' = [notifyList EXCEPT ![g] = {}]
            /\ dispatched' = dispatched \cup notifyList[g]
            /\ asleep' = (asleep /\ waiting # g)
       ELSE UNCHANGED <<notifyList, dispatched, asleep>>
  /\ UNCHANGED <<life, releaseCalled, waiting>>

\* The critical section of leave().
LeaveGroup(g) ==
  /\ pendingOperations' = [pendingOperations EXCEPT ![g] = @ - 1]
  /\ IF pendingOperations[g] = 1
       THEN /\ notifyList' = [notifyList EXCEPT ![g] = {}]
            /\ dispatched' = dispatched \cup notifyList[g]
            /\ asleep' = (asleep /\ waiting # g)
            /\ life' = [life EXCEPT ![g] = ~releaseCalled[g]]
       ELSE UNCHANGED <<notifyList, dispatched, asleep, life>>
  /\ UNCHANGED <<releaseCalled, waiting>>

\* leave() by whoever called enter().
Leave(g) ==
  /\ manual[g] > 0
  /\ manual' = [manual EXCEPT ![g] = @ - 1]
  /\ LeaveGroup(g)
  /\ UNCHANGED <<entryVars, workerVars, op>>

RunNotification(b) ==
  /\ waiting = NoGroup /\ b \in dispatched
  /\ dispatched' = dispatched \ {b}
  /\ UNCHANGED <<entryVars, workerVars, op, groupVars, mainVars>>

\* wait() of a group that is still busy; of an idle group it returns at once.
BeginWait(g) ==
  /\ CanCall(g) /\ pendingOperations[g] > 0
  /\ waiting' = g /\ asleep' = TRUE
  /\ UNCHANGED <<entryVars, workerVars, op, groupVars, dispatched>>

SpuriousWakeup ==
  /\ asleep /\ asleep' = FALSE
  /\ UNCHANGED <<entryVars, workerVars, op, groupVars, dispatched, waiting>>

\* The loop of wait(), once awake, tests the counter again.
ContinueWait ==
  /\ waiting # NoGroup /\ ~asleep
  /\ IF pendingOperations[waiting] > 0
       THEN asleep' = TRUE /\ UNCHANGED waiting
       ELSE waiting' = NoGroup /\ UNCHANGED asleep
  /\ UNCHANGED <<entryVars, workerVars, op, groupVars, dispatched>>

------------------------------------------------------------------------------
(* The operation queue and its workers. *)

\* schedule(): push the operation, enter the group, add a worker if allowed.
\* The limit is one lower while the main run loop tracks events.
Schedule(o, g, q, p, maxThreads) ==
  /\ CanCall(g) /\ op[o] = NoOp
  /\ op' = [op EXCEPT ![o] = [queue |-> q, group |-> g, priority |-> p]]
  /\ operationQueue' = [operationQueue EXCEPT ![q] = Append(@, o)]
  /\ priorityMap' = [priorityMap EXCEPT ![q][p] = Append(@, o)]
  /\ pendingOperations' = [pendingOperations EXCEPT ![g] = @ + 1]
  /\ IF threadCount[q] < maxThreads
       THEN \E w \in Workers :
              /\ wpc[w] = "none"
              /\ wpc' = [wpc EXCEPT ![w] = "locked"]
              /\ wqueue' = [wqueue EXCEPT ![w] = q]
              /\ respectPriority' = [respectPriority EXCEPT ![w] = threadCount[q] > 0]
              /\ threadCount' = [threadCount EXCEPT ![q] = @ + 1]
              /\ UNCHANGED wop
       ELSE UNCHANGED <<workerVars, threadCount>>
  /\ UNCHANGED <<life, notifyList, releaseCalled, manual, dispatched, mainVars>>

\* Faulty variant: the newest operation of the highest priority is taken.
NewestOperation(q, respect) ==
  LET used == {p \in Priorities : priorityMap[q][p] # <<>>}
      highest == CHOOSE p \in used : \A r \in used : r <= p
  IN  IF respect THEN Last(priorityMap[q][highest]) ELSE Head(operationQueue[q])

\* The operation popNextOperation() takes: the first of the highest priority
\* in use, or the first of the queue.
NextOperation(q, respect) ==
  LET used == {p \in Priorities : priorityMap[q][p] # <<>>}
      highest == CHOOSE p \in used : \A r \in used : r <= p
  IN  IF respect THEN Head(priorityMap[q][highest]) ELSE Head(operationQueue[q])

\* Faulty variant: the priority's list loses its last operation.
FaultyPopOperation(o, q) ==
  LET i == CHOOSE j \in DOMAIN operationQueue[q] : operationQueue[q][j] = o
  IN  /\ operationQueue' = [operationQueue EXCEPT ![q] = RemoveAt(@, i)]
      /\ priorityMap' = [priorityMap EXCEPT ![q][op[o].priority] = Front(@)]

\* It erases the operation from the queue and pops its priority's first one.
PopOperation(o, q) ==
  LET i == CHOOSE j \in DOMAIN operationQueue[q] : operationQueue[q][j] = o
  IN  /\ operationQueue' = [operationQueue EXCEPT ![q] = RemoveAt(@, i)]
      /\ priorityMap' = [priorityMap EXCEPT ![q][op[o].priority] = Tail(@)]

\* A worker that holds the mutex takes an operation and unlocks ...
WorkerTake(w) ==
  /\ wpc[w] = "locked" /\ operationQueue[wqueue[w]] # <<>>
  /\ LET o == NextOperation(wqueue[w], respectPriority[w])
     IN  /\ PopOperation(o, wqueue[w])
         /\ wop' = [wop EXCEPT ![w] = o]
  /\ wpc' = [wpc EXCEPT ![w] = "running"]
  /\ UNCHANGED <<threadCount, wqueue, respectPriority, op, groupVars, dispatched,
                 mainVars>>

\* ... runs its block, with the mutex unlocked, ...
WorkerRun(w) ==
  /\ wpc[w] = "running"
  /\ wpc' = [wpc EXCEPT ![w] = "leaving"]
  /\ UNCHANGED <<entryVars, wqueue, wop, respectPriority, op, groupVars,
                 dispatched, mainVars>>

\* ... and leaves the group, before it goes round its loop.
WorkerLeave(w) ==
  /\ wpc[w] = "leaving"
  /\ LeaveGroup(op[wop[w]].group)
  /\ wpc' = [wpc EXCEPT ![w] = "locked"]
  /\ wop' = [wop EXCEPT ![w] = NoOp]
  /\ op' = [op EXCEPT ![wop[w]] = NoOp]
  /\ UNCHANGED <<entryVars, wqueue, respectPriority, manual>>

\* Faulty variant: a worker ends after an operation, whatever is queued.
HastyWorkerExit(w) ==
  /\ wpc[w] = "locked"
  /\ wpc' = [wpc EXCEPT ![w] = "none"]
  /\ wqueue' = [wqueue EXCEPT ![w] = NoQueue]
  /\ respectPriority' = [respectPriority EXCEPT ![w] = FALSE]
  /\ threadCount' = [threadCount EXCEPT ![wqueue[w]] = @ - 1]
  /\ UNCHANGED <<operationQueue, priorityMap, wop, op, groupVars,
                 dispatched, mainVars>>

\* A worker that finds nothing to do ends; the last one erases the entry.
WorkerExit(w) ==
  /\ wpc[w] = "locked" /\ operationQueue[wqueue[w]] = <<>>
  /\ wpc' = [wpc EXCEPT ![w] = "none"]
  /\ wqueue' = [wqueue EXCEPT ![w] = NoQueue]
  /\ respectPriority' = [respectPriority EXCEPT ![w] = FALSE]
  /\ threadCount' = [threadCount EXCEPT ![wqueue[w]] = @ - 1]
  /\ UNCHANGED <<operationQueue, priorityMap, wop, op, groupVars,
                 dispatched, mainVars>>

Work(w) == WorkerTake(w) \/ WorkerRun(w) \/ WorkerLeave(w) \/ WorkerExit(w)

Next ==
  \/ \E g \in Groups :
       \/ CreateGroup(g) \/ Release(g) \/ Enter(g) \/ Leave(g) \/ BeginWait(g)
       \/ \E b \in Blocks : Notify(b, g)
       \/ \E o \in Ops, q \in Queues, p \in Priorities,
             maxThreads \in {MaxThreads - 1, MaxThreads} :
               Schedule(o, g, q, p, maxThreads)
  \/ \E b \in Blocks : RunNotification(b)
  \/ SpuriousWakeup \/ ContinueWait
  \/ \E w \in Workers : Work(w)

Spec == Init /\ [][Next]_vars

\* GCD runs every block it was given, a signalled waiter gets the processor,
\* and whoever entered a group by hand leaves it.
Fairness ==
  /\ \A w \in Workers : WF_vars(Work(w))
  /\ \A g \in Groups : WF_vars(Leave(g))
  /\ WF_vars(ContinueWait)

FairSpec == Spec /\ Fairness

------------------------------------------------------------------------------
\* The state has the types the code declares (_ASAsyncTransaction.mm:100-152).
TypeOK ==
  /\ operationQueue \in [Queues -> Seq(Ops)]
  /\ priorityMap \in [Queues -> [Priorities -> Seq(Ops)]]
  /\ threadCount \in [Queues -> Nat]
  /\ wpc \in [Workers -> {"none", "locked", "running", "leaving"}]
  /\ wqueue \in [Workers -> Queues \cup {NoQueue}]
  /\ wop \in [Workers -> Ops \cup {NoOp}]
  /\ respectPriority \in [Workers -> BOOLEAN]
  /\ op \in [Ops -> OpInfo \cup {NoOp}]
  /\ life \in [Groups -> BOOLEAN]
  /\ pendingOperations \in [Groups -> Nat]
  /\ notifyList \in [Groups -> SUBSET Blocks]
  /\ releaseCalled \in [Groups -> BOOLEAN]
  /\ manual \in [Groups -> Nat]
  /\ dispatched \in SUBSET Blocks
  /\ waiting \in Groups \cup {NoGroup}
  /\ asleep \in BOOLEAN

WorkersOf(q) == {w \in Workers : wqueue[w] = q}
Outstanding(g) == {o \in Ops : op[o] # NoOp /\ op[o].group = g}

\* No operation is left behind without a thread to run it: a worker gives up
\* only under the mutex and only when the queue is empty, so schedule() never
\* counts on a thread that is about to end (the assertion at line 257).
NoStrandedOperation ==
  \A q \in Queues : operationQueue[q] # <<>> =>
    \E w \in WorkersOf(q) : wpc[w] # "none"

\* list holds the elements of queue that are in S, in their order.
IsSelection(list, queue, S) ==
  /\ \A i \in DOMAIN list :
       list[i] \in S /\ \E k \in DOMAIN queue : queue[k] = list[i]
  /\ \A k \in DOMAIN queue :
       queue[k] \in S => \E i \in DOMAIN list : list[i] = queue[k]
  /\ \A i, j \in DOMAIN list, k, m \in DOMAIN queue :
       queue[k] = list[i] /\ queue[m] = list[j] => (i < j <=> k < m)

OfPriority(p) == {o \in Ops : op[o] # NoOp /\ op[o].priority = p}

\* Each priority's list holds the queued operations of that priority in their
\* order, whichever way threads took operations before ("Queue
\* inconsistency", line 188).
QueueConsistency ==
  \A q \in Queues, p \in Priorities :
    IsSelection(priorityMap[q][p], operationQueue[q], OfPriority(p))

\* Every counter is exact: a group's is the number of its operations and
\* entries that have not left, a queue's the number of its threads.
CountersExact ==
  /\ \A g \in Groups : life[g] =>
       pendingOperations[g] = Cardinality(Outstanding(g)) + manual[g]
  /\ \A q \in Queues : threadCount[q] = Cardinality(WorkersOf(q))

\* Nobody uses a deleted group: as long as an operation or an entry still has
\* to leave it, or main waits for it, the group exists (lines 161-170,
\* 296-300: release() and the last leave() decide who deletes it).
GroupOutlivesItsUsers ==
  \A g \in Groups :
    Outstanding(g) # {} \/ manual[g] > 0 \/ waiting = g => life[g]

\* The wake-up of wait() is not lost: main never sleeps on a finished group.
NoLostWakeup == asleep => waiting # NoGroup /\ pendingOperations[waiting] > 0

\* At any time at most one thread of a queue takes operations regardless of
\* their priority; all others respect it (line 236).
OneThreadIgnoresPriority ==
  \A q \in Queues : \A v, w \in WorkersOf(q) :
    ~respectPriority[v] /\ ~respectPriority[w] => v = w

\* An operation starts only together with every earlier one of its priority.
StartsInOrder ==
  \A q \in Queues : \A i, j \in DOMAIN operationQueue[q] :
    LET o == operationQueue[q][i]  r == operationQueue[q][j]
    IN  i < j /\ op[o].priority = op[r].priority /\ (\E w \in Workers : wop'[w] = r)
          => \E w \in Workers : wop'[w] = o

\* Operations of equal priority start in the order they were scheduled,
\* whatever mixture of threads takes them.
FifoWithinPriority == [][StartsInOrder]_vars

\* wait() returns.
WaitReturns == \A g \in Groups : waiting = g ~> waiting = NoGroup

\* "after last scheduled operation the group will delete itself" (line 73).
ReleasedGroupIsDeleted == \A g \in Groups : releaseCalled[g] ~> ~life[g]

Callers(g) == {<<g, i>> : i \in 1 .. manual[g]}

Abstract == INSTANCE DispatchGroup WITH
  Members <- Ops \cup Groups \X (1 .. MaxEnters),
  outstanding <- [g \in Groups |-> Outstanding(g) \cup Callers(g)],
  awaiting <- notifyList, due <- dispatched, waiter <- waiting

\* The counter, the list and the condition variable behave as a dispatch
\* group: a notification becomes due exactly when the last member leaves, and
\* wait() returns only on an empty group.
ImplementsDispatchGroup == Abstract!Spec
==============================================================================
