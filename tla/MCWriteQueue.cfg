CONSTANTS
  P2P = P2P
  Main = Main
  api = api
  None = None
  Api <- MCApi
  NumLocks = 2
  LockNums = 4
  StopAtBlock = FALSE
  MaxCalls = 3
  MaxReads = 2
SPECIFICATION Spec
INVARIANTS ContextsValid Isolation
CHECK_DEADLOCK FALSE
PROPERTIES CallsReturn QuitExits
