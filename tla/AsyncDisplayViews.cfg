SPECIFICATION Spec
CONSTANTS
  cell = cell
  layer = layer
  view = view
  NoNode = NoNode
  Nodes = {cell, layer, view}
  Root = cell
  Parent <- MCParent
  Container <- MCContainer
  Draws = {layer, view}
  LayerBacked = {layer}
  Changed = {view}
  ChangedOffMain = {view}
  Resized = {view}
  Immediate = {layer}
  MaxCalls = 2
INVARIANT
  ChangesAreNotForgotten
CHECK_DEADLOCK FALSE
