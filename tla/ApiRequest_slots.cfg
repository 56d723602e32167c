SPECIFICATION Spec
CONSTANTS
  Requests = {q1,q2,q3}
  Hosts = {h1}
  DefHost = h1
  OnHost = FALSE
  Keys = {k1,k2}
  HostHttpConcurr = 2
  RetryNum = 1
  RateLimit = 2
  CacheSecs = 1
  Waits = {1,2}
  RetrySecs = 1
  None = None
SYMMETRY Symm
CHECK_DEADLOCK FALSE
INVARIANTS BanRespected OwnAnswer SlotsGivenBack
