SPECIFICATION ShareSpec
CONSTANTS
  Addr <- MCAddr
  Iter <- MCIter
  Callers = {c1, c2}
  Upstreams <- MCUpstreams
  IndexSize = 4
  MaxChanges = 1
  MaxDraws = 7
  NoBackend = NoBackend
SYMMETRY Symmetric
INVARIANT EvenShare
