SPECIFICATION FairSpec
CONSTANTS
  alpha = alpha
  beta = beta
  Members = {alpha, beta}
  RowIds = {1}
  PageLimit = 1
  MaxRevision = 2
  Events <- Everything
  Budget = 1
INVARIANTS
  TypeOK
  OutboxContiguous
  GhostsAreExplained
  LossIsNoticed
PROPERTIES
  CursorNeverGoesBack
  ClientCatchesUp
CHECK_DEADLOCK FALSE
