SPECIFICATION CachesSpec
CONSTANTS
  e1 = e1
  e2 = e2
  spot = spot
  linear = linear
  Exgs = {e1, e2}
  Callers = {c1, c2}
  Loaders = {1, 2, 3}
  Types = {spot, linear}
  CareMarkets <- Cares
  Codes = {"btc", "eth"}
  Brings <- Codes3
  ExpireMins = 1
  MaxMins = 1
  MaxCalls = 3
  None = None
  Names = {"main", "sub"}
  DefName = "main"
  Syms = {"perp", "future"}
  Tiers <- McTiers
  Levs = {1, 2}
  FirstLev = 1
  Notionals = {4}
  LevCallers = {c1, c2}
  LevExchanges = {"okx", "bybit", "binance"}
  MaxChanges = 2
  MaxLevCalls = 2
  HoldExchanges = {"okx", "bybit", "binance"}
  Insts = {"p", "q"}
  Coins = {"usdt", "btc"}
  MaxSize = 1
  MaxEvents = 3
  MaxFetches = 2
SYMMETRY Symm
CHECK_DEADLOCK FALSE
INVARIANTS CurrenciesOfMarkets LoneLoadServed LeverageInForce ConfigShown TierServed HoldingsTrue
