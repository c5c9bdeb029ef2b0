SPECIFICATION FairSpec
CONSTANTS
  Nodes <- MCNodes
  NoNode = NoNode
  Root = "root"
  Tree <- MCTree
  Moved = {"other"}
  LaidOut <- MCLaidOut
  Cancellers = {"main"}
  CompletionCalls = {"nothing"}
  MaxTransitions = 2
INVARIANTS
  NoStuckPending
  ValidLayoutsAreCurrent
PROPERTIES
  LastTransitionWins
  TransitionsEnd
CHECK_DEADLOCK FALSE
