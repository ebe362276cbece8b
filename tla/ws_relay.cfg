SPECIFICATION Spec
CONSTANTS
  Window = 2
  MaxSent = 3
INVARIANT TypeOK
INVARIANT NeverPanics
INVARIANT ClosesInOrder
INVARIANT NeverWaitsInVain
PROPERTY ImplementsStream
PROPERTY EndsWithBoth
PROPERTY FlowsIfBothRead
CHECK_DEADLOCK FALSE
