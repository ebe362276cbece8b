SPECIFICATION Spec
CONSTANTS
  Configs <- Documented
  NoStream = NoStream
  NoTls = NoTls
INVARIANT OffersWhatIsDocumented
CHECK_DEADLOCK FALSE
