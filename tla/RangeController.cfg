SPECIFICATION Spec
CONSTANTS
  Nodes = {n1, n2}
  Modes = {TRUE, FALSE}
  Coalesced = {n1}
  MaxCells = 1
  MaxBlocks = 1
INVARIANTS
  NotVisibleWhenDeallocated
  RangeIsExact
PROPERTIES
  NoVisibilityThrash
