SPECIFICATION FairSpec
CONSTANTS
  MaxId = 3
  Keys = {k1, k2}
  Data = {d1}
  None = None
  MaxDepth = 3
  MaxRevision = 4
CHECK_DEADLOCK FALSE
INVARIANTS
  UndoRestores
  UndoSafe
  IInv
PROPERTIES
  ImplementsSnapshots
  UndoAllTerminates
