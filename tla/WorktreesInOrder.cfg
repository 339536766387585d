SPECIFICATION FairSpec
CONSTANTS
  a = a
  b = b
  h1 = h1
  h2 = h2
  Sessions = {a}
  Handlers = {h1}
  MaxRows = 3
  MaxCommits = 2
  Events <- Orderly
  Budget = 3
INVARIANTS
  TypeOK
  LiveWorktreeIntact
  NothingSkipped
  ConflictHasOwner
PROPERTIES
  EditsStay
  RunsInWorktree
  WorkEnds
CHECK_DEADLOCK FALSE
