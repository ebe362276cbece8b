SPECIFICATION Spec
CONSTANTS
  Addr <- MCAddr
  Iter <- MCIter
  Callers = {c1, c2}
  Upstreams <- AllUpstreams
  IndexSize = 3
  MaxChanges = 2
  NoBackend = NoBackend
INVARIANT TypeOK
INVARIANT NoneOnlyBeforeFirstRefresh
PROPERTY NeverRepublishesOlder
PROPERTY Converges
PROPERTY OnlyCurrentInTheEnd
PROPERTY ImplementsPool
