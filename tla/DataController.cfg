SPECIFICATION Spec
CONSTANTS
  Updates = {u1, u2}
  Callbacks = {c1}
  SyncBlocks = {b1}
  Optimized = TRUE
  ViewDefers = FALSE
  ReplacesMaps = TRUE
  SubmitsBetween = FALSE
  MaxDepth = 3
  MaxMaps = 3
  MaxTraits = 1
SYMMETRY Symmetry
INVARIANTS
  WaitShowsUpdates
  RelayoutFindsMapsEqual
  TraitsReachElements
PROPERTIES
  ImplementsElementMaps
