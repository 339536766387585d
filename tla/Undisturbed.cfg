SPECIFICATION Spec
CONSTANTS
  alpha = alpha
  beta = beta
  Members = {alpha}
  MaxMessages = 3
  MaxRows = 3
  MaxRuns = 6
  Events <- Undisturbed
  Budget = 2
INVARIANTS
  NoOrphanedDelivery
  ExecutorOwnsDelivery
  MemberShowsDelivery
CHECK_DEADLOCK FALSE
