SPECIFICATION Spec
CONSTANTS
  Batches = {b1, b2}
  Conns = {n1, n2, n3}
  SendCap = 2
  CtlCap = 2
  Watchdog = TRUE
  Closer = FALSE
  OtherErrs = FALSE
  None = None
SYMMETRY Symm
CHECK_DEADLOCK FALSE
INVARIANTS NoCloseUnderRead Resumed
