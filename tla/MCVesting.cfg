CONSTANTS
  Users = {1, 2, 3}
  Null = 0
  Self = Self
  Producer = 3
  Witnesses = {"w"}
  InitBalance <- MCBalance
  InitShares <- MCShares
  InitFund = 3
  Unit = 2
  Intervals = 2
  Week = 1
  Period = 1
  Recovery = 1
  Whole = 2
  MaxRoutes = 2
  Depth = 2
  MaxVoted = 1
  MinDelegation = 1
  MinUpdate = 0
  Inflation = {0, 1}
  Amounts = {1, 3}
  MaxTime = 2
  Percents = {0, 1}
  Mixes <- MCMixes
SPECIFICATION Spec
INVARIANTS SharesMatch VotesExact Backed
PROPERTIES PaidInFull
CHECK_DEADLOCK FALSE
