SPECIFICATION Spec
CONSTANTS
  t = t
  u = u
  w = w
  Tx <- MCTx
  Expiry <- MCExpiry
  Size <- MCSize
  Needs <- MCNeeds
  Conflicts <- MCConflicts
  MaxAhead = 4
  BlockSize = 2
  Partition = 3
  PostponedLimit = 0
  MaxTime = 4
  MaxLen = 4
  MaxPending = 2
  MaxBlockTxs = 2
INVARIANTS
  NoDoubleInclusion
  NothingLost
  NoNeedlessCull
  IInv
PROPERTIES
  ProducedBlockApplies
