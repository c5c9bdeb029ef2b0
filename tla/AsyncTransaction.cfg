SPECIFICATION FairSpec
CONSTANTS
  Layers = {l1, l2}
  Transactions = {t1, t2}
  Ops = {o1, o2}
  NoTransaction = NoTransaction
  NoLayer = NoLayer
  MaxDepth = 3
  MaxOps = 2
  WaitsForOwn = FALSE
  HooksDisplayAll = FALSE
INVARIANTS
  CallbacksFollowOperations
  CallbacksRunOnce
  UncanceledHaveValues
PROPERTIES
  OperationsJoinOpen
  CallbacksHappen
  WaitsEnd
