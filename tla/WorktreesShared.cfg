SPECIFICATION Spec
CONSTANTS
  a = a
  b = b
  h1 = h1
  h2 = h2
  Sessions = {a, b}
  Handlers = {h1, h2}
  MaxRows = 1
  MaxCommits = 1
  Events <- Sharing
  Budget = 2
SYMMETRY Swap
INVARIANTS
  NothingSkipped
PROPERTIES
  CommitIsOwn
CHECK_DEADLOCK FALSE
