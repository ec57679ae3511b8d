SPECIFICATION WatchSpec
CONSTANTS
  a = a
  b = b
  c = c
  Blocks <- ValidTree
  Fate <- MCFate
  LibOf <- MCLib
  InitChain <- Root
  Checkpoints <- ValidPoints
  MaxUndo = 4
  DefaultSize = 100
  Redeliver = TRUE
INVARIANTS
  LogIsChain
  FollowsLongest
  CheckpointsHold
PROPERTIES
  ReplaySucceeds
