SPECIFICATION Spec
CONSTANTS
  Addr <- MCAddr
  Iter <- MCIter
  Callers = {c1, c2}
  Upstreams <- LeastConnUpstream
  IndexSize = 3
  MaxChanges = 0
  NoBackend = NoBackend
PROPERTY LeastConnPicksLeastLoaded
