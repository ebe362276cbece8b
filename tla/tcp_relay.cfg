SPECIFICATION Spec
CONSTANTS
  Window = 2
  BufSize = 2
  MaxSent = 3
INVARIANT TypeOK
INVARIANT EndDeliversASide
PROPERTY ImplementsStream
PROPERTY FlowsAlone
PROPERTY EndsWithASide
CHECK_DEADLOCK FALSE
