SPECIFICATION Spec
CONSTANTS
  Configs <- MCConfigs
  NoStream = NoStream
  NoTls = NoTls
INVARIANT ServesAllOrNothing
CHECK_DEADLOCK FALSE
