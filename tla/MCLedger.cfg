CONSTANTS
  a = a
  b = b
  c = c
  Null = Null
  Users <- MCUsers
  InitBalance <- MCBalance
  Ids = {1}
  Prices <- MCPrices
  FeedPrices <- MCFeed
  MaxRequests = 1
  Delay = 1
  Amounts = {1, 3}
  Mixes <- MCMixes
  MaxTime = 2
  MaxObjects = 3
SPECIFICATION Spec
INVARIANTS SupplyMatches BookUncrossed TradesAtLimit
CHECK_DEADLOCK FALSE
