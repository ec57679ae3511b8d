CONSTANTS
  Witnesses = {1, 2, 3, 4}
  MaxWitnesses = 2
  MaxVoted = 1
  Lap = 31
  InitVotes <- MCVotes
  MaxVotes = 4
  MaxChanges = 4
SPECIFICATION Spec
INVARIANTS NobodyWraps
PROPERTIES EveryoneServed
CHECK_DEADLOCK FALSE
