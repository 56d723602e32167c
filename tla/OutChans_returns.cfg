SPECIFICATION FairSpec
CONSTANTS
  Users = {u1}
  Readers = {r1, r2}
  Keys = {k1}
  Syms = {s1}
  PopKeys = {k1}
  DirectKeys = {k1}
  Chans = {c1, c2}
  RefMaps = {m1, m2, m3}
  Cap = 1
  MaxMsgs = 2
  MaxClosings = 1
  None = None
CHECK_DEADLOCK FALSE
PROPERTY CallsReturnUnlessJammed
