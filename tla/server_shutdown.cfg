SPECIFICATION Spec
CONSTANTS
  NumServices = 3
  PortOf <- SharedPort
  Conns = {k1, k2}
  GracePeriod = 2
  ExitTimeout = 1
INVARIANT TypeOK
INVARIANT CutOnlyAfterGrace
INVARIANT WaitsAtListener
PROPERTY NoAcceptInGrace
PROPERTY ListensUntilShutdown
PROPERTY SignalEndsProcess
PROPERTY QueuedIsAnswered
CHECK_DEADLOCK FALSE
