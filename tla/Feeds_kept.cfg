SPECIFICATION FeedsSpec
CONSTANTS
  Refreshers = {r1,r2}
  MaxId = 6
  MaxEvent = 2
  MaxLost = 1
  MaxFails = 1
  None = None
  Prices = {1,2,3,4}
  MaxSize = 2
  Window = 2
  MaxQueue = 1
  Exchanges = {"okx","bybit","bitget","binance"}
  Markets = {"linear","option","spot"}
  Insts = {A,B}
  Accs = {x,y}
  Frames = {"1m"}
  Limits = {0,5,100}
  Callers = {p1,p2}
  MaxCalls = 2
CHECK_DEADLOCK FALSE
INVARIANTS BookMatchesServer CaughtUp SideTrue VolumesTrue Fed KeysHeld
PROPERTIES Recovers
