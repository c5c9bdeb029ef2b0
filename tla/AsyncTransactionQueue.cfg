SPECIFICATION Spec
CONSTANTS
  Ops = {o1, o2, o3}
  Groups = {g1}
  Queues = {q1, q2}
  Priorities = {1, 2}
  Workers = {w1, w2, w3}
  Blocks = {b1}
  NoOp = NoOp
  NoGroup = NoGroup
  NoQueue = NoQueue
  MaxThreads = 2
  MaxEnters = 1
SYMMETRY Symmetry
INVARIANTS
  NoStrandedOperation
  QueueConsistency
  GroupOutlivesItsUsers
PROPERTIES
  FifoWithinPriority
  ImplementsDispatchGroup
