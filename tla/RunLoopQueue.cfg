SPECIFICATION FairQueueSpec
CONSTANTS
  Objects = {a, b, c}
  Null = Null
  BatchSizes <- MCBatchSizes
  MaxEnqueues = 4
INVARIANTS
  WorkIsAnnounced
PROPERTIES
  DrainedMeansDone
  EnqueuedIsConsumed
CHECK_DEADLOCK FALSE
