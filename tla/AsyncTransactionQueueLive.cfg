SPECIFICATION FairSpec
CONSTANTS
  Ops = {o1, o2}
  Groups = {g1, g2}
  Queues = {q1}
  Priorities = {1}
  Workers = {w1, w2}
  Blocks = {}
  NoOp = NoOp
  NoGroup = NoGroup
  NoQueue = NoQueue
  MaxThreads = 2
  MaxEnters = 1
PROPERTIES
  WaitReturns
  ReleasedGroupIsDeleted
