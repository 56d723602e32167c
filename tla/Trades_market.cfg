SPECIFICATION TradesSpec
CONSTANTS
  Callers = {c1, c2}
  Exchanges = {"okx", "binance", "bybit"}
  Asks <- McAsks
  Wanted <- McWanted
  Size = 2
  Amounts = {4}
  None = None
  MaxCalls = 1
  MaxOrders = 2
  MaxFlight = 2
  MaxSends = 2
  Queries <- McQueries
  Week = 3
  Period = 2
  PageSize = 2
  MaxTime = 5
  MaxRows = 4
CHECK_DEADLOCK FALSE
INVARIANT OnAskedMarket
