SPECIFICATION FairSpec
CONSTANTS
  Batches = {b1}
  Conns = {n1, n2}
  SendCap = 1
  CtlCap = 2
  Watchdog = TRUE
  Closer = TRUE
  OtherErrs = TRUE
  None = None
CHECK_DEADLOCK FALSE
PROPERTIES ReconnectReturns WriterFollowsReader DogReturns
