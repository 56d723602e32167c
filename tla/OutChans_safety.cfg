SPECIFICATION Spec
CONSTANTS
  Users = {u1, u2}
  Readers = {r1, r2}
  Keys = {k1}
  Syms = {s1, s2}
  PopKeys = {k1}
  DirectKeys = {k1}
  Chans = {c1, c2}
  RefMaps = {m1, m2}
  Cap = 2
  MaxMsgs = 2
  MaxClosings = 1
  None = None
SYMMETRY Symm
INVARIANTS TypeOK RegisteredOpen RegisteredInUse WriterHoldsOpenChan BufferInOrder
CHECK_DEADLOCK FALSE
PROPERTY KeepsPromise
