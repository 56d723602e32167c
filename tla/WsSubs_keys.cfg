SPECIFICATION FairSpec
CONSTANTS
  Callers = {a1}
  Dog = dog
  Objs = {o1,o2,o3}
  Keys = {k1,k2}
  BatchNum = 1
  connMinSubs = 1
  maxClientConn = 2
  MaxFaults = 1
  MaxCalls = 1
  None = None
CHECK_DEADLOCK FALSE
INVARIANTS SubsCounted LiveSubscribed
PROPERTIES Healed
