SPECIFICATION Spec
CONSTANTS
  Window = 1
  BufSize = 1
  MaxSent = 1
INVARIANT HalfCloseKeepsReply
CHECK_DEADLOCK FALSE
