SPECIFICATION FairSpec
CONSTANTS
  Updates = {u1, u2}
  Callbacks = {c1}
  SyncBlocks = {}
  Optimized = FALSE
  ViewDefers = TRUE
  ReplacesMaps = FALSE
  SubmitsBetween = FALSE
  MaxDepth = 2
  MaxMaps = 2
  MaxTraits = 0
INVARIANTS
  CompletionFollowsDeploy
PROPERTIES
  UpdatesComplete
  CallbacksRun
