SPECIFICATION FairSpec
CONSTANTS
  alpha = alpha
  beta = beta
  Members = {alpha}
  MaxMessages = 3
  MaxRows = 3
  MaxRuns = 6
  Events <- Healthy
  Budget = 2
PROPERTIES
  InFlightEnds
  QueueAdvances
CHECK_DEADLOCK FALSE
