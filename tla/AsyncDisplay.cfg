SPECIFICATION Spec
CONSTANTS
  cell = cell
  layer = layer
  view = view
  NoNode = NoNode
  Nodes = {cell, layer, view}
  Root = cell
  Parent <- MCParent
  Container <- MCContainer
  Draws = {layer, view}
  LayerBacked = {layer}
  Changed = {view}
  ChangedOffMain = {layer}
  Resized = {view}
  Immediate = {layer}
  MaxCalls = 4
INVARIANTS
  ChangesAreNotForgotten
  ClearedOutsideRange
  PendingIsExact
PROPERTIES
  ContentsNeverRegress
  EnsuredMeansShown
CHECK_DEADLOCK FALSE
