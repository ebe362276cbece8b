SPECIFICATION UmaySpec
CONSTANTS
  NumServices = 1
  PortOf <- OnePort
  Conns = {k1, k2}
  GracePeriod = 1
  ExitTimeout = 0
  Addr <- OneAddr
  Iter <- OneIter
  Upstream <- DnsUpstream
  IndexSize = 1
  MaxChanges = 1
  NoBackend = NoBackend
  Protocol = "ws"
INVARIANT StagesMatch
INVARIANT RefusedOnlyAtFirst
PROPERTY ImplementsServer
PROPERTY ServedAlone
CHECK_DEADLOCK FALSE
