SPECIFICATION Spec
CONSTANTS
  Callers = {c1, c2}
  Chans = {x1, x2, x3}
  Keys = {k1, k2}
  MaxCalls = 3
  MaxLost = 2
  MaxRefused = 1
  None = None
SYMMETRY Symm
CHECK_DEADLOCK FALSE
INVARIANTS OneAnswer AuthedIsLoggedIn KeysRestored OwnerAnswerable
