SPECIFICATION Spec
CONSTANTS
  a = a
  b = b
  c = c
  Blocks <- BadTree
  Fate <- MCFate
  LibOf <- MCLib
  InitChain <- Root
  Checkpoints = {}
  MaxUndo = 5
  DefaultSize = 100
  Redeliver = FALSE
INVARIANTS
  AnnouncedStays
