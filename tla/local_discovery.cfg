SPECIFICATION Spec
CONSTANTS
  Addr = {a1, a2}
  Callers = {t1, t2}
  Edits <- LocalEdits
  Stores <- MCStores
  Read <- discover
  Values <- Backends
  Initial <- MCInitial
  Apply <- LocalApply
PROPERTY ImplementsAtomic
PROPERTY LockFree
