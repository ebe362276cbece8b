SPECIFICATION CountSpec
CONSTANTS
  Callers = {h1, h2, h3}
  Iter <- MCIter
  Edits <- CountEdits
  Stores = {}
  Read <- MCRead
  Values <- Counts
  Initial <- NoConnections
  Apply <- CountApply
INVARIANT CountsAreExact
PROPERTY SkewIsBounded
SYMMETRY MCSymmetry
