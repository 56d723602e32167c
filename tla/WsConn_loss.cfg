SPECIFICATION FairSpec
CONSTANTS
  Batches = {b1}
  Conns = {n1, n2}
  SendCap = 2
  CtlCap = 2
  Watchdog = FALSE
  Closer = FALSE
  OtherErrs = FALSE
  None = None
CHECK_DEADLOCK FALSE
PROPERTY LossResumes
