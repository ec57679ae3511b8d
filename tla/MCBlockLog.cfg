CONSTANTS
  MaxBlock = 5
  Size <- MCSize
SPECIFICATION Spec
INVARIANTS IndexExact
PROPERTY ImplementsLog
CHECK_DEADLOCK FALSE
